---- MODULE Spec2Model ----
(***************************************************************************)
(* Snoot Club server: membership / session / notification core.            *)
(*                                                                         *)
(* The document store (lowdb) keeps one in-memory object graph, db.data,   *)
(* and one persisted file.  db.read() samples the file and later replaces  *)
(* db.data by freshly parsed objects, so every object reference a handler  *)
(* took before that moment is detached from db.data afterwards.            *)
(* db.write() serialises db.data at the call.                              *)
(* A handler runs without interleaving between two awaits of real I/O      *)
(* (single-threaded event loop), so each action below is the code between  *)
(* two such suspension points.                                             *)
(***************************************************************************)
EXTENDS Integers, Sequences, FiniteSets, TLC

VARIABLES
  variant,       \* which variant of index.js runs: "v1" (lines 1-149) or "v2" (151-620)
  twilioOn,      \* twilioClient && TWILIO_FROM
  disk,          \* the persisted db.json
  mem,           \* db.data
  storeMembers,  \* store.members of the CommonJS add-on
  otpStore,      \* the in-memory OTP map, as a set of entries
  h,             \* the requests in flight, one per slot
  now,           \* the wall clock, in ms
  nextId,        \* ghost: the next nanoid to hand out
  nextTok,       \* ghost: the next random session token to hand out
  resp,          \* ghost: the last response sent, with its request; flip toggles at each
  prev,          \* ghost: the response sent before resp
  hist           \* ghost: history the claims speak about

vars == <<variant, twilioOn, disk, mem, storeMembers, otpStore, h, now, nextId, nextTok, resp, prev, hist>>

----------------------------------------------------------------------------
(* Bounds of the model *)

MaxMembers == 2
MaxTicks == 2
MaxIds == 3
MaxToks == 2
MaxMeetings == 2
MaxSweeps == 2

TickMs == 5 * 60 * 1000
MaxNow == MaxTicks * TickMs

Slots == {1, 2}

----------------------------------------------------------------------------
(* Generic helpers on sequences *)

Range(s) == {s[i] : i \in DOMAIN s}

Includes(s, x) == \E i \in DOMAIN s : s[i] = x

\* arr.filter(t => t !== x)
RECURSIVE Without(_, _)
Without(arr, x) ==
  IF arr = <<>> THEN <<>>
  ELSE IF Head(arr) = x THEN Without(Tail(arr), x)
  ELSE <<Head(arr)>> \o Without(Tail(arr), x)

\* Array.prototype.find: the first of the matching indices I, 0 if there is none
First(I) == IF I = {} THEN 0 ELSE CHOOSE i \in I : \A j \in I : i <= j

\* members.find(x => x.phone === phone)
IndexByPhone(ms, phone) == First({i \in DOMAIN ms : ms[i].phone = phone})

\* members.find(x => x.id === id)
IndexById(ms, id) == First({i \in DOMAIN ms : ms[i].id = id})

----------------------------------------------------------------------------
(* Phone numbers are strings, modelled as sequences of one-character strings *)

Digits == {"0", "1", "2", "3", "4", "5", "6", "7", "8", "9"}

P10 == <<"5", "5", "5", "1", "2", "3", "4", "5", "6", "7">>
PFmt == <<"+", "1", " ", "(", "5", "5", "5", ")", " ", "1", "2", "3", "-", "4", "5", "6", "7">>
P11 == <<"1", "5", "5", "5", "1", "2", "3", "4", "5", "6", "7">>
PIntl == <<"+", "4", "4", " ", "2", "0">>
PBare == <<"4", "4", "2", "0">>
PAlpha == <<"a", "b", "c">>
PEmpty == <<>>

IsDigit(c) == c \in Digits

\* (phone || '').replace(/\D/g, '')
DigitsOf(phone) == SelectSeq(phone, IsDigit)

normalizeUS(phone) ==
  LET digits == DigitsOf(phone) IN
  IF digits = <<>> THEN <<>>
  ELSE IF Len(digits) = 10 THEN <<"+", "1">> \o digits
  ELSE IF Len(digits) = 11 /\ Head(digits) = "1" THEN <<"+">> \o digits
  ELSE IF phone # <<>> /\ Head(phone) = "+" THEN phone
  ELSE <<"+">> \o digits

----------------------------------------------------------------------------
(* Values *)

NoId == [k |-> "none", n |-> 0]
NanoId(n) == [k |-> "nano", n |-> n]
\* `m_${Date.now().toString(36)}`: the id of an add-on member is its creation time
StampId(t) == [k |-> "m", n |-> t]

NoTok == [kind |-> "none", n |-> 0, sub |-> NoId, email |-> ""]
\* makeToken(): crypto.randomBytes(24), never repeated
OpaqueTok(n) == [kind |-> "tok", n |-> n, sub |-> NoId, email |-> ""]
\* signToken(member): a signed JWT is its payload {sub, email}
signToken(m) == [kind |-> "jwt", n |-> 0, sub |-> m.id, email |-> m.email]

\* passwordHash: absent, or bcrypt.hash(password, 10)
NoHash == [hashed |-> FALSE, of |-> ""]
bcryptHash(password) == [hashed |-> TRUE, of |-> password]

\* JavaScript null in the phone field of a member
NullPhone == <<"null">>

EmptyStore == [members |-> <<>>, meetings |-> <<>>]

NoArgs == [phone |-> <<>>, name |-> "", email |-> "", expoToken |-> "",
           code |-> "", token |-> NoTok, id |-> NoId, pin |-> "", password |-> "",
           raw |-> <<>>, role |-> "", startsAt |-> 0, sendSms |-> TRUE, sendPush |-> TRUE,
           secret |-> ""]

Idle == [kind |-> "idle", pc |-> "idle", snap |-> EmptyStore, held |-> EmptyStore,
         stale |-> FALSE, args |-> NoArgs, due |-> <<>>, approved |-> <<>>,
         i |-> 0, j |-> 0, t |-> 0, smsCount |-> 0, pushCount |-> 0,
         meeting |-> NoId, sms |-> <<>>, fails |-> 0, pushes |-> 0, pfails |-> 0]

NoResp == [op |-> "none", code |-> 0, memberId |-> NoId, norm |-> <<>>,
           token |-> NoTok, status |-> "", list |-> <<>>, slot |-> 0, req |-> NoArgs,
           smsCount |-> 0, pushCount |-> 0, attempts |-> 0, delivered |-> FALSE,
           sms |-> <<>>, fails |-> 0, pushes |-> 0, pfails |-> 0, again |-> FALSE,
           flip |-> FALSE]

Reply(s, op, code) == [NoResp EXCEPT !.op = op, !.code = code, !.slot = s]

ADMIN_PIN == "123456"

\* truthiness of a JavaScript string
Truthy(str) == str # ""

\* arr.includes(x) ? arr : arr.concat(x), guarded by the truthiness of x
PushUnique(arr, x) == IF Truthy(x) /\ ~Includes(arr, x) THEN Append(arr, x) ELSE arr

----------------------------------------------------------------------------
(* The document store *)

\* db.read() resolving in slot s: db.data becomes a fresh object graph, so what the
\* other requests hold of the old graph is detached from db.data from now on
Detach(t) ==
  IF h[t].pc \in {"hash", "sms", "push"} /\ ~h[t].stale
  THEN [h[t] EXCEPT !.stale = TRUE, !.held = mem]
  ELSE h[t]

AfterRead(s, hs) == [t \in Slots |-> IF t = s THEN hs ELSE Detach(t)]

\* a response is sent in this step
Responded == resp'.flip # resp.flip

\* what is remembered of the response before the last one, when it answered a registration
Summary(r) ==
  [NoResp EXCEPT !.op = r.op, !.code = r.code, !.memberId = r.memberId,
                 !.req = [NoArgs EXCEPT !.raw = r.req.raw, !.expoToken = r.req.expoToken]]

Send(s, r) ==
  /\ resp' = [r EXCEPT !.slot = s, !.flip = ~resp.flip]
  /\ prev' = IF resp.op = "register" THEN Summary(resp) ELSE NoResp

----------------------------------------------------------------------------
(* POST /register, index.js 287-312 *)

\* the member object a first registration creates
NewMember(id, norm, name, email, t) ==
  [id |-> id, phone |-> norm, name |-> name, email |-> email, status |-> "pending",
   isAdmin |-> FALSE, expoTokens |-> <<>>, sessionTokens |-> <<>>, createdAt |-> t,
   pw |-> NoHash]

\* a merge that lets the request overwrite a name or email already set
TouchMemberOverwrite(m, name, email) ==
  [m EXCEPT !.name = IF Truthy(name) THEN name ELSE m.name,
            !.email = IF Truthy(email) THEN email ELSE m.email]

\* name/email of an existing member are filled only when empty
TouchMember(m, name, email) ==
  [m EXCEPT !.name = IF Truthy(name) /\ ~Truthy(m.name) THEN name ELSE m.name,
            !.email = IF Truthy(email) /\ ~Truthy(m.email) THEN email ELSE m.email]

\* a registration that never looks the phone up
RegisterMembersNoFind(ms, id, norm, name, email, expoToken, t) ==
  Append(ms, [NewMember(id, norm, name, email, t) EXCEPT
                !.expoTokens = PushUnique(<<>>, expoToken)])

\* members after registering norm: find by phone, create or touch, then add the push token
RegisterMembers(ms, id, norm, name, email, expoToken, t) ==
  LET idx == IndexByPhone(ms, norm)
      ms1 == IF idx = 0 THEN Append(ms, NewMember(id, norm, name, email, t))
             ELSE [ms EXCEPT ![idx] = TouchMember(ms[idx], name, email)]
      k == IF idx = 0 THEN Len(ms1) ELSE idx
  IN [ms1 EXCEPT ![k].expoTokens = PushUnique(ms1[k].expoTokens, expoToken)]

RegisterStart(s, role, phone, name, email, expoToken) ==
  /\ variant = "v2"
  /\ h[s].pc = "idle"
  /\ LET norm == normalizeUS(phone) IN
     IF norm = <<>>
     THEN /\ Send(s, Reply(s, "register", 400))
          /\ UNCHANGED h
     ELSE /\ h' = [h EXCEPT ![s] = [Idle EXCEPT !.kind = "register", !.pc = "read",
                     !.snap = disk,
                     !.args = [NoArgs EXCEPT !.phone = norm, !.name = name,
                                             !.email = email, !.expoToken = expoToken,
                                             !.raw = phone, !.role = role]]]
          /\ UNCHANGED <<resp, prev>>
  /\ UNCHANGED <<variant, twilioOn, disk, mem, storeMembers, otpStore, now, nextId, nextTok, hist>>

\* a registration that applies its change to the store as persisted at that moment
RegisterRunFresh(s, r) ==
  /\ LET a == r.args
         ms == disk.members
         idx == IndexByPhone(ms, a.phone)
         ms2 == RegisterMembers(ms, NanoId(nextId), a.phone, a.name, a.email, a.expoToken, now)
         k == IndexByPhone(ms2, a.phone)
     IN /\ idx = 0 => (Len(ms) < MaxMembers /\ nextId <= MaxIds)
        /\ mem' = [disk EXCEPT !.members = ms2]
        /\ disk' = mem'
        /\ nextId' = IF idx = 0 THEN nextId + 1 ELSE nextId
        /\ Send(s, [Reply(s, "register", 200) EXCEPT !.memberId = ms2[k].id,
                       !.status = ms2[k].status, !.norm = a.phone, !.req = a])
  /\ h' = [h EXCEPT ![s] = Idle]
  /\ UNCHANGED <<variant, twilioOn, storeMembers, otpStore, now, nextTok, hist>>

\* what the handler does once db.read() has resolved, r being the request in flight
RegisterRun(s, r) ==
  /\ LET a == r.args
         ms == r.snap.members
         idx == IndexByPhone(ms, a.phone)
         ms2 == RegisterMembers(ms, NanoId(nextId), a.phone, a.name, a.email, a.expoToken, now)
         k == IndexByPhone(ms2, a.phone)
     IN /\ idx = 0 => (Len(ms) < MaxMembers /\ nextId <= MaxIds)
        /\ mem' = [r.snap EXCEPT !.members = ms2]
        /\ disk' = mem'
        /\ nextId' = IF idx = 0 THEN nextId + 1 ELSE nextId
        /\ Send(s, [Reply(s, "register", 200) EXCEPT !.memberId = ms2[k].id,
                       !.status = ms2[k].status, !.norm = a.phone, !.req = a])
  /\ h' = AfterRead(s, Idle)
  /\ UNCHANGED <<variant, twilioOn, storeMembers, otpStore, now, nextTok, hist>>

RegisterDone(s) ==
  /\ h[s].kind = "register" /\ h[s].pc = "read"
  /\ RegisterRun(s, h[s])

\* the whole request when no other request runs meanwhile
Register(s, role, phone, name, email, expoToken) ==
  /\ variant = "v2"
  /\ h[s].pc = "idle"
  /\ LET norm == normalizeUS(phone) IN
     IF norm = <<>>
     THEN /\ Send(s, Reply(s, "register", 400))
          /\ UNCHANGED <<variant, twilioOn, disk, mem, storeMembers, otpStore, h, now,
                         nextId, nextTok, hist>>
     ELSE RegisterRun(s, [Idle EXCEPT !.kind = "register", !.pc = "read", !.snap = disk,
                            !.args = [NoArgs EXCEPT !.phone = norm, !.name = name,
                                                    !.email = email, !.expoToken = expoToken,
                                                    !.raw = phone, !.role = role]])

----------------------------------------------------------------------------
(* POST /register of the first variant, index.js 44-55: no normalisation, no re-read *)

NewMemberV1(id, phone, name, t) ==
  [id |-> id, phone |-> phone, name |-> name, email |-> "", status |-> "pending",
   isAdmin |-> FALSE, expoTokens |-> <<>>, sessionTokens |-> <<>>, createdAt |-> t,
   pw |-> NoHash]

RegisterV1Members(ms, id, phone, name, expoToken, t) ==
  LET idx == IndexByPhone(ms, phone)
      ms1 == IF idx = 0 THEN Append(ms, NewMemberV1(id, phone, name, t)) ELSE ms
      k == IF idx = 0 THEN Len(ms1) ELSE idx
  IN [ms1 EXCEPT ![k].expoTokens = PushUnique(ms1[k].expoTokens, expoToken)]

RegisterV1(s, role, phone, name, expoToken) ==
  /\ variant = "v1"
  /\ h[s].pc = "idle"
  /\ IF phone = <<>>
     THEN /\ Send(s, Reply(s, "register", 400))
          /\ UNCHANGED <<mem, disk, nextId>>
     ELSE LET ms == mem.members
              idx == IndexByPhone(ms, phone)
              ms2 == RegisterV1Members(ms, NanoId(nextId), phone, name, expoToken, now)
              k == IndexByPhone(ms2, phone)
          IN /\ idx = 0 => (Len(ms) < MaxMembers /\ nextId <= MaxIds)
             /\ mem' = [mem EXCEPT !.members = ms2]
             /\ disk' = mem'
             /\ nextId' = IF idx = 0 THEN nextId + 1 ELSE nextId
             /\ Send(s, [Reply(s, "register", 200) EXCEPT !.memberId = ms2[k].id,
                            !.status = ms2[k].status, !.norm = phone,
                            !.req = [NoArgs EXCEPT !.phone = phone, !.raw = phone,
                                       !.name = name, !.expoToken = expoToken,
                                       !.role = role]])
  /\ UNCHANGED <<variant, twilioOn, storeMembers, otpStore, h, now, nextTok, hist>>

----------------------------------------------------------------------------
(* Admin PIN and moderation routes, index.js 262-269 and 398-430 (64-100 in v1) *)

\* a filter that lets every member through
byStatusAny(ms, status) == ms

\* byStatus(status)
RECURSIVE byStatus(_, _)
byStatus(ms, status) ==
  IF ms = <<>> THEN <<>>
  ELSE (IF Head(ms).status = status THEN <<Head(ms)>> ELSE <<>>) \o byStatus(Tail(ms), status)

\* the PIN with white space around it, as a query parameter can carry it
Padded(str) == " " \o str \o " "

\* String.prototype.trim on the PINs of the inputs, of which only the padded PIN has
\* white space at its ends
trim(str) == IF str = Padded(ADMIN_PIN) THEN ADMIN_PIN ELSE str

\* pin = (header or query or '').toString().trim(); pin && pin === ADMIN_PIN
isAdminReq(pin) == Truthy(trim(pin)) /\ trim(pin) = ADMIN_PIN

\* the first variant mounts its moderation routes without requireAdmin
requireAdmin(pin) == variant = "v1" \/ isAdminReq(pin)

SetStatus(s, id, pin, status, op) ==
  /\ h[s].pc = "idle"
  /\ IF ~requireAdmin(pin)
     THEN /\ Send(s, [Reply(s, op, 401) EXCEPT !.req = [NoArgs EXCEPT !.pin = pin, !.id = id]])
          /\ UNCHANGED <<mem, disk>>
     ELSE LET idx == IndexById(mem.members, id) IN
          IF idx = 0
          THEN /\ Send(s, [Reply(s, op, 404) EXCEPT
                              !.req = [NoArgs EXCEPT !.pin = pin, !.id = id]])
               /\ UNCHANGED <<mem, disk>>
          ELSE /\ mem' = [mem EXCEPT !.members[idx].status = status]
               /\ disk' = mem'
               /\ Send(s, [Reply(s, op, 200) EXCEPT !.memberId = id,
                              !.req = [NoArgs EXCEPT !.pin = pin, !.id = id]])
  /\ hist' = IF resp'.code = 200 /\ status = "approved"
             THEN [hist EXCEPT !.everApproved = @ \cup {id}] ELSE hist
  /\ UNCHANGED <<variant, twilioOn, storeMembers, otpStore, h, now, nextId, nextTok>>

Approve(s, id, pin) == SetStatus(s, id, pin, "approved", "approve")

Reject(s, id, pin) == SetStatus(s, id, pin, "rejected", "reject")

\* m.isAdmin = value, behind requireAdmin
SetAdmin(s, id, pin, value, op) ==
  /\ h[s].pc = "idle"
  /\ LET a == [NoArgs EXCEPT !.pin = pin, !.id = id] IN
     IF ~requireAdmin(pin)
     THEN /\ Send(s, [Reply(s, op, 401) EXCEPT !.req = a])
          /\ UNCHANGED <<mem, disk>>
     ELSE LET idx == IndexById(mem.members, id) IN
          IF idx = 0
          THEN /\ Send(s, [Reply(s, op, 404) EXCEPT !.req = a])
               /\ UNCHANGED <<mem, disk>>
          ELSE /\ mem' = [mem EXCEPT !.members[idx].isAdmin = value]
               /\ disk' = mem'
               /\ Send(s, [Reply(s, op, 200) EXCEPT !.memberId = id, !.req = a])
  /\ UNCHANGED <<variant, twilioOn, storeMembers, otpStore, h, now, nextId, nextTok, hist>>

MakeAdmin(s, id, pin) == SetAdmin(s, id, pin, TRUE, "makeAdmin")

RemoveAdmin(s, id, pin) == SetAdmin(s, id, pin, FALSE, "removeAdmin")

\* a removal that leaves the array as it is
RemoveByIdKeep(ms, id) == ms

\* db.data.members.filter(x => x.id !== req.params.id)
RECURSIVE RemoveById(_, _)
RemoveById(ms, id) ==
  IF ms = <<>> THEN <<>>
  ELSE (IF Head(ms).id # id THEN <<Head(ms)>> ELSE <<>>) \o RemoveById(Tail(ms), id)

\* DELETE /members/:id; again tells whether a removal of this id has answered ok before
DeleteMember(s, id, pin) ==
  /\ h[s].pc = "idle"
  /\ LET a == [NoArgs EXCEPT !.pin = pin, !.id = id] IN
     IF ~requireAdmin(pin)
     THEN /\ Send(s, [Reply(s, "deleteMember", 401) EXCEPT !.req = a])
          /\ UNCHANGED <<mem, disk, hist>>
     ELSE /\ mem' = [mem EXCEPT !.members = RemoveById(@, id)]
          /\ disk' = mem'
          /\ hist' = [hist EXCEPT !.removed = @ \cup {id}]
          /\ Send(s, [Reply(s, "deleteMember", 200) EXCEPT !.req = a,
                        !.again = id \in hist.removed])
  /\ UNCHANGED <<variant, twilioOn, storeMembers, otpStore, h, now, nextId, nextTok>>

\* the ids of the objects of an array
Ids(arr) == [k \in DOMAIN arr |-> arr[k].id]

\* GET /members: the second variant re-reads the store first
ListMembers(s, pin, status) ==
  /\ h[s].pc = "idle"
  /\ LET a == [NoArgs EXCEPT !.pin = pin] IN
     IF ~requireAdmin(pin)
     THEN /\ Send(s, [Reply(s, "listMembers", 401) EXCEPT !.req = a])
          /\ UNCHANGED <<mem, h>>
     ELSE /\ mem' = IF variant = "v2" THEN disk ELSE mem
          /\ h' = IF variant = "v2" THEN AfterRead(s, Idle) ELSE h
          /\ Send(s, [Reply(s, "listMembers", 200) EXCEPT !.req = a, !.status = status,
                        !.list = Ids(IF Truthy(status) THEN byStatus(mem'.members, status)
                                     ELSE mem'.members)])
  /\ UNCHANGED <<variant, twilioOn, disk, storeMembers, otpStore, now, nextId, nextTok, hist>>

----------------------------------------------------------------------------
(* POST /addons/auth/register of the mounted add-on, unnamed/part_001 29-57 *)

\* String.prototype.toLowerCase on the e-mail addresses of the model
toLowerCase(e) == IF e = "A@X" THEN "a@x" ELSE IF e = "B@X" THEN "b@x" ELSE e

AddonMember(id, cleanEmail, name, password, t) ==
  [id |-> id, phone |-> <<>>, name |-> IF Truthy(name) THEN name ELSE cleanEmail,
   email |-> cleanEmail, status |-> "approved", isAdmin |-> FALSE, expoTokens |-> <<>>,
   sessionTokens |-> <<>>, createdAt |-> t, pw |-> bcryptHash(password)]

AddonRegisterStart(s, email, password, name) ==
  /\ variant = "v2"
  /\ h[s].pc = "idle"
  /\ LET cleanEmail == toLowerCase(email) IN
     IF ~Truthy(cleanEmail) \/ ~Truthy(password)
     THEN /\ Send(s, Reply(s, "addonRegister", 400))
          /\ UNCHANGED h
     ELSE /\ h' = [h EXCEPT ![s] = [Idle EXCEPT !.kind = "addonRegister", !.pc = "read",
                     !.snap = disk,
                     !.args = [NoArgs EXCEPT !.email = cleanEmail, !.name = name,
                                             !.password = password]]]
          /\ UNCHANGED <<resp, prev>>
  /\ UNCHANGED <<variant, twilioOn, disk, mem, storeMembers, otpStore, now, nextId, nextTok, hist>>

\* store.read() resolves; the e-mail is looked up; bcrypt.hash is awaited
AddonRegisterRead(s) ==
  /\ h[s].kind = "addonRegister" /\ h[s].pc = "read"
  /\ mem' = h[s].snap
  /\ LET idx == First({i \in DOMAIN mem'.members : toLowerCase(mem'.members[i].email) = h[s].args.email}) IN
     IF idx # 0
     THEN /\ Send(s, Reply(s, "addonRegister", 409))
          /\ h' = AfterRead(s, Idle)
     ELSE /\ h' = AfterRead(s, [h[s] EXCEPT !.pc = "hash", !.stale = FALSE])
          /\ UNCHANGED <<resp, prev>>
  /\ UNCHANGED <<variant, twilioOn, disk, storeMembers, otpStore, now, nextId, nextTok, hist>>

\* members.push(m); store.setMembers(members); store.write(): members is the array read
\* before the hash, which is db.data.members only while no other read has resolved
AddonRegisterDone(s) ==
  /\ h[s].kind = "addonRegister" /\ h[s].pc = "hash"
  /\ LET a == h[s].args
         members == IF h[s].stale THEN h[s].held.members ELSE mem.members
         m == AddonMember(StampId(now), a.email, a.name, a.password, now)
     IN /\ Len(members) < MaxMembers
        /\ mem' = [mem EXCEPT !.members = Append(members, m)]
        /\ disk' = mem'
        /\ Send(s, [Reply(s, "addonRegister", 200) EXCEPT !.memberId = m.id,
                       !.token = signToken(m), !.status = m.status, !.req = a])
        /\ hist' = [hist EXCEPT !.everApproved = @ \cup {m.id},
                                !.issued = @ \cup {[tok |-> signToken(m), owner |-> m.id]}]
  /\ h' = [h EXCEPT ![s] = Idle]
  /\ UNCHANGED <<variant, twilioOn, storeMembers, otpStore, now, nextId, nextTok>>

----------------------------------------------------------------------------
(* POST /auth/signup-email of the CommonJS add-on, server-addons-auth-chat.js 103-129 *)

\* normEmail(e): String(e || '').trim().toLowerCase()
normEmail(e) == toLowerCase(e)

SignupMember(id, lower, phone, name, password, t) ==
  [id |-> id, phone |-> IF phone = <<>> THEN NullPhone ELSE phone, name |-> name,
   email |-> lower, status |-> "pending", isAdmin |-> FALSE, expoTokens |-> <<>>,
   sessionTokens |-> <<>>, createdAt |-> t, pw |-> bcryptHash(password)]

SignupEmailStart(s, email, password, name, phone) ==
  /\ h[s].pc = "idle"
  /\ IF ~Truthy(email) \/ ~Truthy(password)
     THEN /\ Send(s, Reply(s, "signupEmail", 400))
          /\ UNCHANGED h
     ELSE IF \E i \in DOMAIN storeMembers : normEmail(storeMembers[i].email) = normEmail(email)
     THEN /\ Send(s, Reply(s, "signupEmail", 409))
          /\ UNCHANGED h
     ELSE /\ h' = [h EXCEPT ![s] = [Idle EXCEPT !.kind = "signupEmail", !.pc = "hash2",
                     !.args = [NoArgs EXCEPT !.email = normEmail(email), !.name = name,
                                             !.phone = phone, !.password = password]]]
          /\ UNCHANGED <<resp, prev>>
  /\ UNCHANGED <<variant, twilioOn, disk, mem, storeMembers, otpStore, now, nextId, nextTok, hist>>

SignupEmailDone(s) ==
  /\ h[s].kind = "signupEmail" /\ h[s].pc = "hash2"
  /\ Len(storeMembers) < MaxMembers
  /\ LET a == h[s].args
         m == SignupMember(StampId(now), a.email, a.phone, a.name, a.password, now)
     IN /\ storeMembers' = Append(storeMembers, m)
        /\ Send(s, [Reply(s, "signupEmail", 200) EXCEPT !.memberId = m.id,
                       !.status = "pending"])
  /\ h' = [h EXCEPT ![s] = Idle]
  /\ UNCHANGED <<variant, twilioOn, disk, mem, otpStore, now, nextId, nextTok, hist>>

----------------------------------------------------------------------------
(* OTP registry, index.js 222-234 *)

OtpTtlMs == 10 * 60 * 1000

\* a registry that keeps the entries issued earlier for the phone
setOtpKeep(store, phone, code, t) ==
  store \cup {[phone |-> phone, code |-> code, expMs |-> t + OtpTtlMs]}

\* otpStore.set(phone, {code, expMs: nowMs() + 10 min})
setOtp(store, phone, code, t) ==
  {e \in store : e.phone # phone} \cup {[phone |-> phone, code |-> code, expMs |-> t + OtpTtlMs]}

\* a check that still accepts the code at the instant it expires
OtpOkInclusive(store, phone, code, t) ==
  \E e \in store : e.phone = phone /\ e.code = code /\ t <= e.expMs

\* v.code === code && nowMs() < v.expMs
OtpOk(store, phone, code, t) ==
  \E e \in store : e.phone = phone /\ e.code = code /\ t < e.expMs

\* a registry that keeps the entry after a successful check
checkOtpKeep(store, phone, code, t) == store

\* a check that consumes the entry of the phone whatever the outcome
checkOtpConsume(store, phone, code, t) == {e \in store : e.phone # phone}

\* the registry after checkOtp: a matching live entry is deleted
checkOtp(store, phone, code, t) ==
  IF OtpOk(store, phone, code, t) THEN {e \in store : e.phone # phone} ELSE store

----------------------------------------------------------------------------
(* memberByToken, index.js 236-251: the index of the member a bearer token resolves to *)

\* decodeJwtIfPresent: three dot-separated parts with a valid signature
decodeJwtIfPresent(token) == token.kind = "jwt"

\* a lookup that does not look at the status of the member it finds
memberByTokenAnyStatus(ms, token) ==
  First({i \in DOMAIN ms : Includes(ms[i].sessionTokens, token)})

memberByToken(ms, token) ==
  LET m1 == First({i \in DOMAIN ms : Includes(ms[i].sessionTokens, token)})
      m2 == First({i \in DOMAIN ms : ms[i].id = token.sub \/ ms[i].email = token.email})
  IN IF m1 # 0 /\ ms[m1].status = "approved" THEN m1
     ELSE IF decodeJwtIfPresent(token) /\ m2 # 0 /\ ms[m2].status = "approved" THEN m2
     ELSE 0

----------------------------------------------------------------------------
(* POST /auth/request-code, index.js 332-357 *)

\* ghost: the code last issued for a phone, and how often it has been accepted since
NoIssue == [code |-> "", at |-> 0 - 1]

\* the entry for phone after code was issued at t; old is the issue it replaces, if any
Issue(otp, phone, code, t) ==
  {e \in otp : e.phone # phone}
    \cup {[phone |-> phone, code |-> code, at |-> t, expMs |-> t + OtpTtlMs, uses |-> 0,
           old |-> IF \E e \in otp : e.phone = phone
                   THEN LET e == CHOOSE e \in otp : e.phone = phone
                        IN [code |-> e.code, at |-> e.at]
                   ELSE NoIssue]}

Used(otp, phone) ==
  {IF e.phone = phone THEN [e EXCEPT !.uses = 1] ELSE e : e \in otp}

\* r is the request once db.read() has resolved; code is what makeCode() draws and
\* smsOk whether the Twilio send succeeds
\* a request that looks no further than the existence of the member
RequestOutcomeLax(ms, idx) == IF idx = 0 THEN 404 ELSE 200

\* the status code of request-code for the member found at idx (0: none)
RequestOutcome(ms, idx) ==
  IF idx = 0 THEN 404 ELSE IF ms[idx].status # "approved" THEN 403 ELSE 200

\* a response that always carries the code
CodeReplyAlways(r, code, delivered) ==
  [r EXCEPT !.status = IF delivered THEN "sent" ELSE "demo", !.list = <<code>>]

\* {ok, sent: true} after a successful send, else {ok, sent: false, demoCode: code}
CodeReply(r, code, delivered) ==
  [r EXCEPT !.status = IF delivered THEN "sent" ELSE "demo",
            !.list = IF delivered THEN <<>> ELSE <<code>>]

RequestCodeRun(s, r, code, smsOk) ==
  /\ mem' = r.snap
  /\ LET norm == r.args.phone
         idx == IndexByPhone(mem'.members, norm)
         out == RequestOutcome(mem'.members, idx)
         re == [Reply(s, "requestCode", out) EXCEPT !.norm = norm, !.req = r.args]
     IN IF out = 404
        THEN /\ Send(s, re)
             /\ UNCHANGED <<otpStore, hist>>
        ELSE IF out = 403
        THEN /\ Send(s, [re EXCEPT !.status = mem'.members[idx].status])
             /\ UNCHANGED <<otpStore, hist>>
        ELSE /\ otpStore' = setOtp(otpStore, norm, code, now)
             /\ hist' = [hist EXCEPT !.otp = Issue(hist.otp, norm, code, now)]
             /\ Send(s, CodeReply([re EXCEPT !.attempts = IF twilioOn THEN 1 ELSE 0,
                                            !.delivered = twilioOn /\ smsOk],
                                  code, twilioOn /\ smsOk))
  /\ h' = AfterRead(s, Idle)
  /\ UNCHANGED <<variant, twilioOn, disk, storeMembers, now, nextId, nextTok>>

RequestCode(s, phone, code, smsOk) ==
  /\ variant = "v2"
  /\ h[s].pc = "idle"
  /\ LET norm == normalizeUS(phone) IN
     IF norm = <<>>
     THEN /\ Send(s, Reply(s, "requestCode", 400))
          /\ UNCHANGED <<variant, twilioOn, disk, mem, storeMembers, otpStore, h, now,
                         nextId, nextTok, hist>>
     ELSE RequestCodeRun(s, [Idle EXCEPT !.snap = disk,
                               !.args = [NoArgs EXCEPT !.phone = norm, !.raw = phone]],
                         code, smsOk)

----------------------------------------------------------------------------
(* POST /auth/verify-code, index.js 359-377 *)

\* the member after a successful verification
Login(m, token, expoToken) ==
  [m EXCEPT !.sessionTokens = Append(m.sessionTokens, token),
            !.expoTokens = PushUnique(m.expoTokens, expoToken)]

\* a verification that only needs the member to exist
MayVerifyAny(ms, idx) == idx # 0

\* the member has to be approved in the store just read
MayVerify(ms, idx) == idx # 0 /\ ms[idx].status = "approved"

VerifyCodeRun(s, r) ==
  /\ mem' = IF MayVerify(r.snap.members, IndexByPhone(r.snap.members, r.args.phone))
               /\ OtpOk(otpStore, r.args.phone, r.args.code, now)
            THEN [r.snap EXCEPT !.members[IndexByPhone(r.snap.members, r.args.phone)] =
                    Login(@, OpaqueTok(nextTok), r.args.expoToken)]
            ELSE r.snap
  /\ LET norm == r.args.phone
         ms == r.snap.members
         idx == IndexByPhone(ms, norm)
     IN IF ~MayVerify(ms, idx)
        THEN /\ Send(s, [Reply(s, "verifyCode", 403) EXCEPT !.norm = norm, !.req = r.args])
             /\ UNCHANGED <<otpStore, disk, nextTok, hist>>
        ELSE IF ~OtpOk(otpStore, norm, r.args.code, now)
        THEN /\ otpStore' = checkOtp(otpStore, norm, r.args.code, now)
             /\ Send(s, [Reply(s, "verifyCode", 401) EXCEPT !.norm = norm, !.req = r.args])
             /\ UNCHANGED <<disk, nextTok, hist>>
        ELSE /\ nextTok <= MaxToks
             /\ otpStore' = checkOtp(otpStore, norm, r.args.code, now)
             /\ disk' = mem'
             /\ nextTok' = nextTok + 1
             /\ hist' = [hist EXCEPT
                           !.issued = @ \cup {[tok |-> OpaqueTok(nextTok), owner |-> ms[idx].id]},
                           !.otp = IF \E e \in @ : e.phone = norm /\ e.code = r.args.code
                                   THEN Used(@, norm) ELSE @]
             /\ Send(s, [Reply(s, "verifyCode", 200) EXCEPT !.norm = norm, !.req = r.args,
                            !.token = OpaqueTok(nextTok), !.memberId = ms[idx].id])
  /\ h' = AfterRead(s, Idle)
  /\ UNCHANGED <<variant, twilioOn, storeMembers, now, nextId>>

VerifyCode(s, phone, code, expoToken) ==
  /\ variant = "v2"
  /\ h[s].pc = "idle"
  /\ LET norm == normalizeUS(phone) IN
     IF norm = <<>> \/ ~Truthy(code)
     THEN /\ Send(s, Reply(s, "verifyCode", 400))
          /\ UNCHANGED <<variant, twilioOn, disk, mem, storeMembers, otpStore, h, now,
                         nextId, nextTok, hist>>
     ELSE VerifyCodeRun(s, [Idle EXCEPT !.snap = disk,
                              !.args = [NoArgs EXCEPT !.phone = norm, !.raw = phone,
                                          !.code = code, !.expoToken = expoToken]])

----------------------------------------------------------------------------
(* requireAuth, POST /auth/logout and GET /me, index.js 253-260 and 379-389 *)

\* req.member.sessionTokens = (req.member.sessionTokens || []).filter(t => t !== token)
DropToken(m, token) == [m EXCEPT !.sessionTokens = Without(m.sessionTokens, token)]

LogoutRun(s, r) ==
  /\ LET token == r.args.token
         idx == memberByToken(r.snap.members, token)
     IN IF idx = 0
        THEN /\ mem' = r.snap
             /\ Send(s, [Reply(s, "logout", 401) EXCEPT !.req = r.args])
             /\ UNCHANGED <<disk, hist>>
        ELSE /\ mem' = [r.snap EXCEPT !.members[idx] = DropToken(@, token)]
             /\ disk' = mem'
             /\ hist' = [hist EXCEPT !.loggedOut = @ \cup {token}]
             /\ Send(s, [Reply(s, "logout", 200) EXCEPT !.req = r.args,
                            !.memberId = r.snap.members[idx].id])
  /\ h' = AfterRead(s, Idle)
  /\ UNCHANGED <<variant, twilioOn, storeMembers, otpStore, now, nextId, nextTok>>

Logout(s, token) ==
  /\ variant = "v2"
  /\ h[s].pc = "idle"
  /\ IF token = NoTok
     THEN /\ Send(s, Reply(s, "logout", 401))
          /\ UNCHANGED <<variant, twilioOn, disk, mem, storeMembers, otpStore, h, now,
                         nextId, nextTok, hist>>
     ELSE LogoutRun(s, [Idle EXCEPT !.snap = disk, !.args = [NoArgs EXCEPT !.token = token]])

MeRun(s, r) ==
  /\ mem' = r.snap
  /\ LET idx == memberByToken(r.snap.members, r.args.token) IN
     IF idx = 0
     THEN Send(s, [Reply(s, "me", 401) EXCEPT !.req = r.args])
     ELSE Send(s, [Reply(s, "me", 200) EXCEPT !.req = r.args,
                     !.memberId = r.snap.members[idx].id,
                     !.status = r.snap.members[idx].status])
  /\ h' = AfterRead(s, Idle)
  /\ UNCHANGED <<variant, twilioOn, disk, storeMembers, otpStore, now, nextId, nextTok, hist>>

Me(s, token) ==
  /\ variant = "v2"
  /\ h[s].pc = "idle"
  /\ IF token = NoTok
     THEN /\ Send(s, Reply(s, "me", 401))
          /\ UNCHANGED <<variant, twilioOn, disk, mem, storeMembers, otpStore, h, now,
                         nextId, nextTok, hist>>
     ELSE MeRun(s, [Idle EXCEPT !.snap = disk, !.args = [NoArgs EXCEPT !.token = token]])

----------------------------------------------------------------------------
(* requireMemberOrAdmin and GET /meetings, index.js 272-275 and 433-436 (103-105 in v1);
   requireMemberOrAdmin and GET /chat of the add-on, part_001 78-98 *)

\* isAdminReq(req), else requireAuth: a bearer token that memberByToken resolves; the first
\* variant mounts GET /meetings with no guard
MemberOrAdmin(ms, pin, token) ==
  \/ variant = "v1"
  \/ isAdminReq(pin)
  \/ (token # NoTok /\ memberByToken(ms, token) # 0)

\* meetings.sort((a, b) => a.startsAt.localeCompare(b.startsAt)): a stable sort
RECURSIVE InsertByStart(_, _)
InsertByStart(sorted, meet) ==
  IF sorted = <<>> THEN <<meet>>
  ELSE IF meet.startsAt < Head(sorted).startsAt THEN <<meet>> \o sorted
  ELSE <<Head(sorted)>> \o InsertByStart(Tail(sorted), meet)

RECURSIVE SortByStart(_)
SortByStart(meetings) ==
  IF meetings = <<>> THEN <<>>
  ELSE InsertByStart(SortByStart(SubSeq(meetings, 1, Len(meetings) - 1)),
                     meetings[Len(meetings)])

\* the guard reads the store for a bearer token, the handler reads it again and sorts
\* db.data.meetings in place; the first variant sorts db.data.meetings as it is
GetMeetings(s, pin, token) ==
  /\ h[s].pc = "idle"
  /\ LET a == [NoArgs EXCEPT !.pin = pin, !.token = token]
         readByGuard == variant = "v2" /\ ~isAdminReq(pin) /\ token # NoTok
         st == IF variant = "v2" THEN disk ELSE mem
     IN IF ~MemberOrAdmin(disk.members, pin, token)
        THEN /\ Send(s, [Reply(s, "getMeetings", 401) EXCEPT !.req = a])
             /\ mem' = IF readByGuard THEN disk ELSE mem
             /\ h' = IF readByGuard THEN AfterRead(s, Idle) ELSE h
        ELSE /\ mem' = [st EXCEPT !.meetings = SortByStart(@)]
             /\ h' = IF variant = "v2" THEN AfterRead(s, Idle) ELSE h
             /\ Send(s, [Reply(s, "getMeetings", 200) EXCEPT !.req = a,
                           !.list = Ids(mem'.meetings)])
  /\ UNCHANGED <<variant, twilioOn, disk, storeMembers, otpStore, now, nextId, nextTok, hist>>

\* the member the add-on's guard finds for a verified JWT: by id or by lower-cased e-mail
AddonMemberByJwt(ms, token) ==
  First({i \in DOMAIN ms :
           ms[i].id = token.sub \/ toLowerCase(ms[i].email) = toLowerCase(token.email)})

\* isAdminReq(req), else a three-part bearer token that verifies and names an approved
\* member
AddonMemberOrAdmin(ms, pin, token) ==
  \/ isAdminReq(pin)
  \/ /\ decodeJwtIfPresent(token)
     /\ AddonMemberByJwt(ms, token) # 0
     /\ ms[AddonMemberByJwt(ms, token)].status = "approved"

\* GET /addons/chat
AddonChat(s, pin, token) ==
  /\ variant = "v2"
  /\ h[s].pc = "idle"
  /\ LET a == [NoArgs EXCEPT !.pin = pin, !.token = token]
         readByGuard == ~isAdminReq(pin) /\ decodeJwtIfPresent(token)
     IN IF ~AddonMemberOrAdmin(disk.members, pin, token)
        THEN /\ Send(s, [Reply(s, "addonChat", 401) EXCEPT !.req = a])
             /\ mem' = IF readByGuard THEN disk ELSE mem
             /\ h' = IF readByGuard THEN AfterRead(s, Idle) ELSE h
        ELSE /\ mem' = disk
             /\ h' = AfterRead(s, Idle)
             /\ Send(s, [Reply(s, "addonChat", 200) EXCEPT !.req = a])
  /\ UNCHANGED <<variant, twilioOn, disk, storeMembers, otpStore, now, nextId, nextTok, hist>>

----------------------------------------------------------------------------
(* GET /me behind requireAuth, with the store read as a suspension point *)

MeStart(s, token) ==
  /\ variant = "v2"
  /\ h[s].pc = "idle"
  /\ IF token = NoTok
     THEN /\ Send(s, Reply(s, "me", 401))
          /\ UNCHANGED h
     ELSE /\ h' = [h EXCEPT ![s] = [Idle EXCEPT !.kind = "me", !.pc = "read", !.snap = disk,
                                      !.args = [NoArgs EXCEPT !.token = token]]]
          /\ UNCHANGED <<resp, prev>>
  /\ hist' = [hist EXCEPT !.prevSweep.alone = FALSE]
  /\ UNCHANGED <<variant, twilioOn, disk, mem, storeMembers, otpStore, now, nextId, nextTok>>

MeDone(s) ==
  /\ h[s].kind = "me" /\ h[s].pc = "read"
  /\ MeRun(s, h[s])

----------------------------------------------------------------------------
(* POST /tasks/notify-24h, index.js 483-532; part_000 156-206 has the same handler *)

CRON_SECRET == "changeme"

\* the ids nanoid() gave to the meetings of the store
MeetingIds == {NanoId(n) : n \in 1..MaxMeetings}

\* startsAt is an ISO string, denoted here by the instant it names in ms; NoDate is a
\* string for which new Date(startsAt).getTime() is NaN
NoDate == 0 - 1

windowStart(t) == t + (24 * 60 - 10) * 60 * 1000
windowEnd(t) == t + (24 * 60 + 10) * 60 * 1000

\* a filter whose window is closed at its upper bound
IsDueClosed(meet, t) ==
  /\ ~meet.didNotify24h
  /\ meet.startsAt # NoDate
  /\ meet.startsAt >= windowStart(t) /\ meet.startsAt <= windowEnd(t)

\* the filter of the sweep; every comparison with NaN is false
IsDue(meet, t) ==
  /\ ~meet.didNotify24h
  /\ meet.startsAt # NoDate
  /\ meet.startsAt >= windowStart(t) /\ meet.startsAt < windowEnd(t)

\* db.data.meetings.filter(...), as the sequence of the ids of the selected meetings
RECURSIVE Due(_, _)
Due(meetings, t) ==
  IF meetings = <<>> THEN <<>>
  ELSE (IF IsDue(Head(meetings), t) THEN <<Head(meetings).id>> ELSE <<>>)
         \o Due(Tail(meetings), t)

\* Expo.isExpoPushToken(t)
isExpoPushToken(t) == t \in {"ExponentPushToken[1]", "ExponentPushToken[2]"}

\* approved.flatMap(mem => mem.expoTokens || []), without what is no Expo token
RECURSIVE PushTargets(_)
PushTargets(approved) ==
  IF approved = <<>> THEN <<>>
  ELSE SelectSeq(Head(approved).expoTokens, isExpoPushToken) \o PushTargets(Tail(approved))

\* meeting.didNotify24h = true, on the object with that id in an array of meetings
Flag(meetings, id) ==
  [k \in DOMAIN meetings |->
     IF meetings[k].id = id THEN [meetings[k] EXCEPT !.didNotify24h = TRUE] ELSE meetings[k]]

FlagAll(meetings, ids) ==
  [k \in DOMAIN meetings |->
     IF meetings[k].id \in Range(ids) THEN [meetings[k] EXCEPT !.didNotify24h = TRUE]
     ELSE meetings[k]]

\* a handler that lets a failed send reach the caller
DeliveryCodeStrict(hs) == IF hs.fails + hs.pfails > 0 THEN 500 ELSE 200

\* every send has its own try/catch: the status of the response does not depend on them
DeliveryCode(hs) == 200

\* the send to approved[j] has settled: a fan-out that gives up at the first failure
SmsNextAbort(hs, ok) == IF ok THEN hs.j + 1 ELSE Len(hs.approved) + 1

\* the send to approved[j] has settled: try/catch inside the loop, so the loop goes on to
\* the next recipient whether the send resolved or threw
SmsNext(hs, ok) == hs.j + 1

\* what is kept of one send: the meeting announced and the recipient
SmsTo(hs, id) == [id |-> id, phone |-> hs.approved[hs.j].phone]

\* the handler after the send to approved[j] settled
SmsSettled(hs, id, ok) ==
  [hs EXCEPT !.sms = Append(@, SmsTo(hs, id)), !.fails = IF ok THEN @ ELSE @ + 1]

\* the handler after the send of the one push chunk settled
PushSettled(hs, ok) ==
  [hs EXCEPT !.pushes = @ + 1, !.pfails = IF ok THEN @ ELSE @ + 1]

\* the sends a sweep awaits for each meeting
HasSms(hs) == twilioOn /\ hs.approved # <<>>
HasPush(hs) == PushTargets(hs.approved) # <<>>
FirstAwait(hs) == IF HasSms(hs) THEN "sms" ELSE "push"

\* a sweep that also lets the admin PIN in
SweepAllowedByPin(secret) == secret = CRON_SECRET \/ secret = ADMIN_PIN

\* (req.query.secret || '') === CRON_SECRET
SweepAllowed(secret) == secret = CRON_SECRET

\* the request carries ?secret= and possibly a bearer token, which the route does not read
SweepStart(s, secret, token) ==
  /\ h[s].pc = "idle"
  /\ hist.sweeps < MaxSweeps
  /\ LET a == [NoArgs EXCEPT !.secret = secret, !.token = token] IN
     IF ~SweepAllowed(secret)
     THEN /\ Send(s, [Reply(s, "sweep", 401) EXCEPT !.req = a])
          /\ UNCHANGED h
     ELSE /\ h' = [h EXCEPT ![s] = [Idle EXCEPT !.kind = "sweep", !.pc = "read", !.snap = disk,
                                      !.args = a]]
          /\ UNCHANGED <<resp, prev>>
  /\ hist' = [hist EXCEPT !.sweeps = @ + 1,
                          !.prevSweep.alone = @ /\ \A t \in Slots \ {s} : h[t].pc = "idle"]
  /\ UNCHANGED <<variant, twilioOn, disk, mem, storeMembers, otpStore, now, nextId, nextTok>>

\* db.read() resolves: the window, due and approved are taken from the fresh db.data; the
\* code runs on to its first await, which is a send, or db.write() when nothing is sent
SweepRead(s) ==
  /\ h[s].kind = "sweep" /\ h[s].pc = "read"
  /\ LET snap == h[s].snap
         due == Due(snap.meetings, now)
         hs == [h[s] EXCEPT !.due = due, !.approved = byStatus(snap.members, "approved"),
                            !.t = now, !.i = 1, !.j = 1]
     IN IF due = <<>> \/ ~(HasSms(hs) \/ HasPush(hs))
        THEN /\ mem' = [snap EXCEPT !.meetings = FlagAll(@, due)]
             /\ disk' = mem'
             /\ h' = AfterRead(s, [hs EXCEPT !.pc = "write", !.approved = <<>>])
             /\ hist' = hist
        ELSE /\ mem' = snap
             /\ disk' = disk
             /\ h' = AfterRead(s, [hs EXCEPT !.pc = FirstAwait(hs)])
             /\ hist' = [hist EXCEPT !.bcast[due[1]] = @ + 1]
  /\ UNCHANGED <<variant, twilioOn, storeMembers, otpStore, now, nextId, nextTok, resp, prev>>

\* the sends of meeting due[i] are over: the flag is set on the object the loop holds,
\* then the loop goes on to the sends of the next meeting, or to db.write()
MeetingDone(s, hs) ==
  LET id == hs.due[hs.i]
      last == hs.i = Len(hs.due)
      held == IF hs.stale THEN [hs.held EXCEPT !.meetings = Flag(@, id)] ELSE hs.held
  IN /\ mem' = IF hs.stale THEN mem ELSE [mem EXCEPT !.meetings = Flag(@, id)]
     /\ disk' = IF last THEN mem' ELSE disk
     /\ h' = [h EXCEPT ![s] =
                IF last
                THEN [hs EXCEPT !.pc = "write", !.held = EmptyStore, !.stale = FALSE,
                                !.approved = <<>>]
                ELSE [hs EXCEPT !.pc = FirstAwait(hs), !.held = held, !.i = @ + 1, !.j = 1]]
     /\ hist' = IF last THEN hist ELSE [hist EXCEPT !.bcast[hs.due[hs.i + 1]] = @ + 1]

\* twilioClient.messages.create(...) to approved[j] settles, sent or failed
SweepSms(s, ok) ==
  /\ h[s].kind = "sweep" /\ h[s].pc = "sms"
  /\ LET hs == [SmsSettled(h[s], h[s].due[h[s].i], ok) EXCEPT
                  !.smsCount = IF ok THEN @ + 1 ELSE @] IN
     IF SmsNext(hs, ok) <= Len(hs.approved)
     THEN /\ h' = [h EXCEPT ![s] = [hs EXCEPT !.j = SmsNext(hs, ok)]]
          /\ UNCHANGED <<mem, disk, hist>>
     ELSE IF HasPush(hs)
     THEN /\ h' = [h EXCEPT ![s] = [hs EXCEPT !.pc = "push"]]
          /\ UNCHANGED <<mem, disk, hist>>
     ELSE MeetingDone(s, hs)
  /\ UNCHANGED <<variant, twilioOn, storeMembers, otpStore, now, nextId, nextTok, resp, prev>>

\* expo.sendPushNotificationsAsync(chunk) settles, sent or failed
SweepPush(s, ok) ==
  /\ h[s].kind = "sweep" /\ h[s].pc = "push"
  /\ MeetingDone(s, [PushSettled(h[s], ok) EXCEPT !.pushCount =
                       IF ok THEN @ + Len(PushTargets(h[s].approved)) ELSE @])
  /\ UNCHANGED <<variant, twilioOn, storeMembers, otpStore, now, nextId, nextTok, resp, prev>>

\* db.write() has completed: res.json({ok, meetingsNotified: due.map(d => d.id), ...})
SweepReturn(s) ==
  /\ h[s].kind = "sweep" /\ h[s].pc = "write"
  /\ Send(s, [Reply(s, "sweep", DeliveryCode(h[s])) EXCEPT !.list = h[s].due,
                !.req = h[s].args,
                !.smsCount = h[s].smsCount, !.pushCount = h[s].pushCount,
                !.sms = h[s].sms, !.fails = h[s].fails,
                !.pushes = h[s].pushes, !.pfails = h[s].pfails])
  /\ h' = [h EXCEPT ![s] = Idle]
  /\ hist' = [hist EXCEPT !.prevSweep =
                [ids |-> h[s].due, now |-> h[s].t,
                 alone |-> \A t \in Slots \ {s} : h[t].pc = "idle"]]
  /\ UNCHANGED <<variant, twilioOn, disk, mem, storeMembers, otpStore, now, nextId, nextTok>>

----------------------------------------------------------------------------
(* POST /meetings, index.js 438-480 *)

Day == 24 * 60 * 60 * 1000

\* a meeting as POST /meetings stored it
Meeting(n, startsAt) == [id |-> NanoId(n), startsAt |-> startsAt, didNotify24h |-> FALSE]

\* a handler that has not pushed the meeting when it goes on to the sends
StoreWithout(st, meeting) == st

\* db.data.meetings.push(meeting)
StoreWith(st, meeting) == [st EXCEPT !.meetings = Append(@, meeting)]

\* requireAdmin, the meeting object, the push onto db.data.meetings and the call of
\* db.write(), which serialises db.data as it is at the call
CreateStart(s, pin, startsAt, sendSms, sendPush) ==
  /\ h[s].pc = "idle"
  /\ IF ~requireAdmin(pin)
     THEN /\ Send(s, [Reply(s, "createMeeting", 401) EXCEPT
                        !.req = [NoArgs EXCEPT !.pin = pin]])
          /\ UNCHANGED <<mem, disk, h, nextId>>
     ELSE /\ nextId <= MaxMeetings
          /\ mem' = StoreWith(mem, Meeting(nextId, startsAt))
          /\ disk' = mem'
          /\ nextId' = nextId + 1
          /\ h' = [h EXCEPT ![s] =
                     [Idle EXCEPT !.kind = "create", !.pc = "cwrite", !.meeting = NanoId(nextId),
                        !.args = [NoArgs EXCEPT !.pin = pin, !.startsAt = startsAt,
                                    !.sendSms = sendSms, !.sendPush = sendPush]]]
          /\ UNCHANGED <<resp, prev>>
  /\ UNCHANGED <<variant, twilioOn, storeMembers, otpStore, now, nextTok, hist>>

\* an SMS loop that does not look at the flag of the body
CreateHasSmsAlways(hs) == twilioOn /\ hs.approved # <<>>

\* (m.sendSms ?? true) && twilioClient && TWILIO_FROM, with somebody to send to
CreateHasSms(hs) == hs.args.sendSms /\ twilioOn /\ hs.approved # <<>>
\* (m.sendPush ?? true), with a chunk to send
CreateHasPush(hs) == hs.args.sendPush /\ PushTargets(hs.approved) # <<>>

\* res.json(meeting)
CreateReply(s, hs) ==
  /\ Send(s, [Reply(s, "createMeeting", DeliveryCode(hs)) EXCEPT !.list = <<hs.meeting>>,
                !.req = [NoArgs EXCEPT !.pin = hs.args.pin, !.sendSms = hs.args.sendSms,
                                       !.sendPush = hs.args.sendPush],
                !.sms = hs.sms, !.fails = hs.fails, !.pushes = hs.pushes,
                !.pfails = hs.pfails])
  /\ h' = [h EXCEPT ![s] = Idle]

\* the code after a settled await, up to the next await or to the response
CreateGoOn(s, hs, pushDone) ==
  IF ~pushDone /\ CreateHasPush(hs)
  THEN /\ h' = [h EXCEPT ![s] = [hs EXCEPT !.pc = "cpush"]]
       /\ UNCHANGED <<resp, prev>>
  ELSE CreateReply(s, hs)

\* db.write() has completed: approved = byStatus('approved'), then the SMS loop up to its
\* first await, or the push loop, or the response
CreateWritten(s) ==
  /\ h[s].kind = "create" /\ h[s].pc = "cwrite"
  /\ LET hs == [h[s] EXCEPT !.approved = byStatus(mem.members, "approved"), !.j = 1] IN
     IF CreateHasSms(hs)
     THEN /\ h' = [h EXCEPT ![s] = [hs EXCEPT !.pc = "csms"]]
          /\ UNCHANGED <<resp, prev>>
     ELSE CreateGoOn(s, hs, FALSE)
  /\ UNCHANGED <<variant, twilioOn, disk, mem, storeMembers, otpStore, now, nextId, nextTok,
                 hist>>

\* twilioClient.messages.create(...) to approved[j] settles, sent or failed
CreateSms(s, ok) ==
  /\ h[s].kind = "create" /\ h[s].pc = "csms"
  /\ LET hs == SmsSettled(h[s], h[s].meeting, ok) IN
     IF SmsNext(hs, ok) <= Len(hs.approved)
     THEN /\ h' = [h EXCEPT ![s] = [hs EXCEPT !.j = SmsNext(hs, ok)]]
          /\ UNCHANGED <<resp, prev>>
     ELSE CreateGoOn(s, hs, FALSE)
  /\ UNCHANGED <<variant, twilioOn, disk, mem, storeMembers, otpStore, now, nextId, nextTok,
                 hist>>

\* expo.sendPushNotificationsAsync(chunk) settles, sent or failed
CreatePush(s, ok) ==
  /\ h[s].kind = "create" /\ h[s].pc = "cpush"
  /\ CreateGoOn(s, PushSettled(h[s], ok), TRUE)
  /\ UNCHANGED <<variant, twilioOn, disk, mem, storeMembers, otpStore, now, nextId, nextTok,
                 hist>>

----------------------------------------------------------------------------
(* Inputs *)

Names == {"", "Bob"}
Emails == {"", "a@x"}
ExpoToks == {"", "ExponentPushToken[1]"}
Passwords == {"", "pw"}
Roles == {"", "admin"}
Pins == {"", ADMIN_PIN, "000000"}

\* no sweep has returned yet
NoSweep == [ids |-> <<>>, now |-> 0 - 1, alone |-> FALSE]

HistInit ==
  [everApproved |-> {}, issued |-> {}, loggedOut |-> {}, otp |-> {},
   bcast |-> [id \in MeetingIds |-> 0], sweeps |-> 0, prevSweep |-> NoSweep,
   removed |-> {}]

TickTo(maxNow) ==
  /\ now < maxNow
  /\ now' = now + TickMs
  /\ UNCHANGED <<variant, twilioOn, disk, mem, storeMembers, otpStore, h, nextId, nextTok,
                 resp, prev, hist>>

----------------------------------------------------------------------------
(* Phone registration, one request at a time *)

RegPhones == {P10, PFmt, PIntl, PEmpty}
\* the first variant compares phones as written: two spellings are two phones
RegPhonesV1 == {P10, PFmt, PEmpty}

\* a member that registered, was approved and promoted, and (in v2) gave an e-mail and
\* logged in once
SeedMember(phone, toks) ==
  [id |-> NanoId(0), phone |-> phone, name |-> "Ann", email |-> "ann@x", status |-> "approved",
   isAdmin |-> TRUE, expoTokens |-> <<>>, sessionTokens |-> toks, createdAt |-> 0,
   pw |-> NoHash]

RegSeeds(v) ==
  {EmptyStore,
   [EmptyStore EXCEPT !.members =
      IF v = "v1" THEN <<[SeedMember(P10, <<>>) EXCEPT !.email = ""]>>
      ELSE <<SeedMember(normalizeUS(P10), <<OpaqueTok(0)>>)>>]}

InitReg ==
  /\ variant \in {"v1", "v2"}
  /\ twilioOn = FALSE
  /\ disk \in RegSeeds(variant)
  /\ mem = disk
  /\ storeMembers = <<>>
  /\ otpStore = {}
  /\ h = [s \in Slots |-> Idle]
  /\ now = TickMs
  /\ nextId = 1
  /\ nextTok = 1
  /\ resp = NoResp
  /\ prev = NoResp
  /\ hist = HistInit

NextReg ==
  \/ \E role \in Roles, phone \in RegPhones, name \in Names, email \in Emails,
        expoToken \in ExpoToks :
       Register(1, role, phone, name, email, expoToken)
  \/ \E role \in Roles, phone \in RegPhonesV1, name \in Names, expoToken \in ExpoToks :
       RegisterV1(1, role, phone, name, expoToken)

SpecReg == InitReg /\ [][NextReg]_vars

RegisterStep == Responded /\ resp'.op = "register" /\ resp'.code = 200

\* what a registration may do to the member m it found: mm is m afterwards
TouchedOnly(m, mm, req) ==
  /\ mm.id = m.id /\ mm.phone = m.phone /\ mm.status = m.status
  /\ mm.isAdmin = m.isAdmin /\ mm.sessionTokens = m.sessionTokens
  /\ mm.createdAt = m.createdAt /\ mm.pw = m.pw
  /\ mm.name = (IF m.name # "" THEN m.name ELSE mm.name)
  /\ mm.name \in {m.name, req.name}
  /\ mm.email = (IF m.email # "" THEN m.email ELSE mm.email)
  /\ mm.email \in {m.email, req.email}
  /\ mm.expoTokens \in {m.expoTokens, Append(m.expoTokens, req.expoToken)}

\* C10: a registration of a phone that already has a member keeps that member's id,
\* status, isAdmin, sessionTokens, createdAt and non-empty name and email, whatever the
\* request carries; it may only fill an empty name or email and append a push token,
\* and it leaves every other member alone.
RegisterExistingFrame ==
  [][RegisterStep =>
       LET idx == IndexByPhone(mem.members, resp'.norm) IN
       idx # 0 =>
         /\ Len(mem'.members) = Len(mem.members)
         /\ \A i \in DOMAIN mem.members :
              IF i = idx THEN TouchedOnly(mem.members[i], mem'.members[i], resp'.req)
              ELSE mem'.members[i] = mem.members[i]
         /\ disk' = mem']_vars

\* the approved, logged-in admin "Ann" registers again as "Bob" with role admin
RegisterExistingWitness ==
  /\ resp.op = "register" /\ resp.code = 200 /\ resp.memberId = NanoId(0)
  /\ resp.req.name = "Bob" /\ resp.req.role = "admin" /\ resp.req.expoToken # ""
  /\ \E i \in DOMAIN mem.members :
       /\ mem.members[i].id = NanoId(0) /\ mem.members[i].name = "Ann"
       /\ mem.members[i].status = "approved" /\ mem.members[i].isAdmin
       /\ mem.members[i].expoTokens # <<>>

----------------------------------------------------------------------------
(* Every operation that creates a member, one request at a time *)

AddonEmails == {"", "A@X", "b@x"}
SignupPhones == {PEmpty, P10, PFmt}

InitSignup ==
  /\ variant \in {"v1", "v2"}
  /\ twilioOn = FALSE
  /\ disk = EmptyStore
  /\ mem = disk
  /\ storeMembers = <<>>
  /\ otpStore = {}
  /\ h = [s \in Slots |-> Idle]
  /\ now = 0
  /\ nextId = 1
  /\ nextTok = 1
  /\ resp = NoResp
  /\ prev = NoResp
  /\ hist = HistInit

TickSignup == TickTo(TickMs)

NextSignup ==
  \/ \E phone \in SignupPhones : Register(1, "", phone, "", "", "")
  \/ \E phone \in SignupPhones : RegisterV1(1, "", phone, "", "")
  \/ \E email \in AddonEmails, password \in Passwords : AddonRegisterStart(1, email, password, "")
  \/ AddonRegisterRead(1)
  \/ AddonRegisterDone(1)
  \/ \E email \in AddonEmails, password \in Passwords, phone \in SignupPhones :
       SignupEmailStart(1, email, password, "", phone)
  \/ SignupEmailDone(1)
  \/ TickSignup

SpecSignup == InitSignup /\ [][NextSignup]_vars

NoTwoSamePhone(ms) == \A i, j \in DOMAIN ms : ms[i].phone = ms[j].phone => i = j

\* C8: in every reachable state no two members have the same phone value, whichever
\* operations created them (phone registration, e-mail sign-up of the add-ons).
PhoneUnique ==
  /\ NoTwoSamePhone(disk.members)
  /\ NoTwoSamePhone(mem.members)
  /\ NoTwoSamePhone(storeMembers)

----------------------------------------------------------------------------
(* One-time codes, one request at a time *)

OtpPhones == {P10, PFmt, PIntl}
MemberPhones == {P10}
Codes == {"123456", "654321"}

InitOtp ==
  /\ variant = "v2"
  /\ twilioOn \in BOOLEAN
  /\ disk = EmptyStore
  /\ mem = disk
  /\ storeMembers = <<>>
  /\ otpStore = {}
  /\ h = [s \in Slots |-> Idle]
  /\ now = 0
  /\ nextId = 1
  /\ nextTok = 1
  /\ resp = NoResp
  /\ prev = NoResp
  /\ hist = HistInit

\* the ids and bearer tokens a client can present
KnownIds == {disk.members[i].id : i \in DOMAIN disk.members}
KnownTokens == {e.tok : e \in hist.issued} \cup {NoTok}

TickOtp == TickTo(MaxNow)

NextOtp ==
  \/ \E phone \in MemberPhones : Register(1, "", phone, "", "", "")
  \/ \E id \in KnownIds : Approve(1, id, ADMIN_PIN)
  \/ \E id \in KnownIds : Reject(1, id, ADMIN_PIN)
  \/ \E phone \in OtpPhones, code \in Codes, smsOk \in BOOLEAN :
       RequestCode(1, phone, code, smsOk)
  \/ \E phone \in OtpPhones, code \in Codes : VerifyCode(1, phone, code, "")
  \/ TickOtp

SpecOtp == InitOtp /\ [][NextOtp]_vars

\* C4: for an approved member, the first verifyCode with the code that requestCode issued,
\* made before expiry, succeeds and mints a token; a later verifyCode with that code, no
\* new requestCode in between, fails with 401 and changes nothing in the store.
OtpOneTimeUse ==
  [][(Responded /\ resp'.op = "verifyCode" /\ resp'.code # 400) =>
       LET norm == resp'.norm
           idx == IndexByPhone(disk.members, norm)
       IN \A e \in hist.otp :
            (/\ e.phone = norm /\ e.code = resp'.req.code
             /\ idx # 0 /\ disk.members[idx].status = "approved")
            => /\ (e.uses = 0 /\ now < e.expMs) =>
                    /\ resp'.code = 200
                    /\ resp'.token.kind = "tok"
                    /\ ~Includes(disk.members[idx].sessionTokens, resp'.token)
                    /\ disk'.members[idx].sessionTokens =
                         Append(disk.members[idx].sessionTokens, resp'.token)
               /\ e.uses > 0 => (resp'.code = 401 /\ disk' = disk)]_vars

\* a second verifyCode with the issued code, before expiry, has just been refused
OtpSecondUseWitness ==
  /\ resp.op = "verifyCode" /\ resp.code = 401
  /\ \E e \in hist.otp :
       /\ e.phone = resp.norm /\ e.code = resp.req.code /\ e.uses = 1 /\ now < e.expMs
  /\ \E i \in DOMAIN disk.members :
       /\ disk.members[i].phone = resp.norm /\ disk.members[i].status = "approved"
       /\ Len(disk.members[i].sessionTokens) = 1

\* a verify-code answered in this step, past the check of its arguments
VerifyStep == Responded /\ resp'.op = "verifyCode" /\ resp'.code # 400

\* the member the answered request names is approved in the store
ApprovedCaller ==
  LET idx == IndexByPhone(disk.members, resp'.norm)
  IN idx # 0 /\ disk.members[idx].status = "approved"

TenMinutes == 10 * 60 * 1000

\* C14: verifyCode with the code last issued succeeds only strictly before the issue time
\* plus 10 minutes; at exactly 10 minutes after the issue, and later, it answers 401 and
\* mints no token.
OtpExpiresAtTenMinutes ==
  [][VerifyStep =>
       /\ resp'.code = 200 =>
            \E e \in hist.otp : /\ e.phone = resp'.norm /\ e.code = resp'.req.code
                                /\ now < e.at + TenMinutes
       /\ \A e \in hist.otp :
            (/\ e.phone = resp'.norm /\ e.code = resp'.req.code
             /\ now >= e.at + TenMinutes /\ ApprovedCaller)
            => /\ resp'.code = 401 /\ resp'.token = NoTok
               /\ disk' = disk /\ nextTok' = nextTok]_vars

\* the right code, never used, refused exactly 10 minutes after it was issued
OtpExpiredWitness ==
  /\ resp.op = "verifyCode" /\ resp.code = 401
  /\ \E e \in hist.otp :
       /\ e.phone = resp.norm /\ e.code = resp.req.code /\ e.uses = 0
       /\ now = e.at + TenMinutes
  /\ \E i \in DOMAIN disk.members :
       disk.members[i].phone = resp.norm /\ disk.members[i].status = "approved"

\* C15: the registry holds at most one entry per phone; after a second requestCode for a
\* phone, verifyCode accepts only the second code (the first one fails) and accepts it
\* until 10 minutes after the second request.
OtpLatestCodeOnly ==
  /\ [](\A e1, e2 \in otpStore : e1.phone = e2.phone => e1 = e2)
  /\ [][VerifyStep =>
          \A e \in hist.otp :
            (e.phone = resp'.norm /\ ApprovedCaller /\ e.uses = 0)
            => /\ resp'.req.code # e.code => (resp'.code = 401 /\ disk' = disk)
               /\ (resp'.req.code = e.code /\ now < e.at + TenMinutes) => resp'.code = 200]_vars

\* c1 was issued, then c2 five minutes later; c2 has just been accepted at a time when
\* c1 would have expired
OtpSecondCodeWitness ==
  /\ resp.op = "verifyCode" /\ resp.code = 200
  /\ \E e \in hist.otp :
       /\ e.phone = resp.norm /\ e.code = resp.req.code /\ e.uses = 1
       /\ e.old.code # "" /\ e.old.code # e.code
       /\ e.old.at < e.at /\ now >= e.old.at + TenMinutes

\* a request-code answered in this step, past the check of its arguments
RequestStep == Responded /\ resp'.op = "requestCode" /\ resp'.code # 400

\* C16: requestCode answers 404 when no member has the normalised phone and 403 with the
\* member's status when the member is pending or rejected; then the registry is unchanged
\* and no SMS is sent.
RequestCodeRefusals ==
  [][RequestStep =>
       LET idx == IndexByPhone(disk.members, resp'.norm) IN
       /\ resp'.norm = normalizeUS(resp'.req.raw)
       /\ idx = 0 => resp'.code = 404
       /\ (idx # 0 /\ disk.members[idx].status # "approved")
          => /\ resp'.code = 403 /\ resp'.status = disk.members[idx].status
             /\ resp'.status \in {"pending", "rejected"}
       /\ (idx = 0 \/ disk.members[idx].status # "approved")
          => /\ otpStore' = otpStore /\ resp'.attempts = 0 /\ resp'.list = <<>>
             /\ disk' = disk]_vars

\* a rejected member that still has a live code asks for another one and is refused
RequestRefusedWitness ==
  /\ resp.op = "requestCode" /\ resp.code = 403 /\ resp.status = "rejected"
  /\ \E e \in otpStore : e.phone = resp.norm /\ now < e.expMs

\* C17: a successful requestCode carries the code in its response exactly when the SMS
\* was not delivered (no channel, or the send failed); after a delivered SMS it answers
\* sent = true without the code; either way the code stored is the one verifyCode accepts.
RequestCodeFallback ==
  [][(RequestStep /\ resp'.code = 200) =>
       /\ resp'.delivered => (twilioOn /\ resp'.attempts = 1)
       /\ ~twilioOn => (resp'.attempts = 0 /\ ~resp'.delivered)
       /\ resp'.delivered => (resp'.status = "sent" /\ resp'.list = <<>>)
       /\ ~resp'.delivered =>
            /\ resp'.status = "demo" /\ Len(resp'.list) = 1
            /\ OtpOk(otpStore', resp'.norm, resp'.list[1], now)
       /\ \E e \in hist'.otp :
            /\ e.phone = resp'.norm /\ e.at = now
            /\ OtpOk(otpStore', resp'.norm, e.code, now)
            /\ \A c \in Codes : OtpOk(otpStore', resp'.norm, c, now) => c = e.code]_vars

\* the send failed with the channel configured, and the code came back in the response
RequestFallbackWitness ==
  /\ resp.op = "requestCode" /\ resp.code = 200
  /\ twilioOn /\ resp.attempts = 1 /\ ~resp.delivered
  /\ resp.status = "demo" /\ resp.list # <<>>

----------------------------------------------------------------------------
(* Sessions of phone members and of e-mail members, one request at a time *)

SessionEmails == {"", "a@x"}

InitSession ==
  /\ variant = "v2"
  /\ twilioOn = TRUE
  /\ disk = EmptyStore
  /\ mem = disk
  /\ storeMembers = <<>>
  /\ otpStore = {}
  /\ h = [s \in Slots |-> Idle]
  /\ now = 0
  /\ nextId = 1
  /\ nextTok = 1
  /\ resp = NoResp
  /\ prev = NoResp
  /\ hist = HistInit

NextSession ==
  \/ \E email \in SessionEmails : Register(1, "", P10, "", email, "")
  \/ AddonRegisterStart(1, "A@X", "pw", "")
  \/ AddonRegisterRead(1)
  \/ AddonRegisterDone(1)
  \/ \E id \in KnownIds : Approve(1, id, ADMIN_PIN)
  \/ \E id \in KnownIds : Reject(1, id, ADMIN_PIN)
  \/ RequestCode(1, P10, "123456", TRUE)
  \/ VerifyCode(1, PFmt, "123456", "")
  \/ \E token \in KnownTokens : Logout(1, token)
  \/ \E token \in KnownTokens : Me(1, token)

SpecSession == InitSession /\ [][NextSession]_vars

\* the session tokens of the member with this id
TokensOf(ms, id) == UNION {Range(ms[i].sessionTokens) : i \in {j \in DOMAIN ms : ms[j].id = id}}

\* C5: a session token is added only by a verifyCode that finds the member approved; a
\* pending or rejected member gets 403 (with its status) from requestCode and 403 from
\* verifyCode; so a member that was never approved holds no session token.
OnlyApprovedGetTokens ==
  /\ [](\A i \in DOMAIN disk.members :
          disk.members[i].id \notin hist.everApproved => disk.members[i].sessionTokens = <<>>)
  /\ [][/\ \A i \in DOMAIN disk'.members :
             ~(TokensOf(disk'.members, disk'.members[i].id)
                 \subseteq TokensOf(disk.members, disk'.members[i].id))
             => /\ Responded /\ resp'.op = "verifyCode" /\ resp'.code = 200
                /\ resp'.memberId = disk'.members[i].id
                /\ \E j \in DOMAIN disk.members :
                     /\ disk.members[j].id = disk'.members[i].id
                     /\ disk.members[j].status = "approved"
        /\ (Responded /\ resp'.op \in {"requestCode", "verifyCode"} /\ resp'.code # 400) =>
             LET idx == IndexByPhone(disk.members, resp'.norm) IN
             (idx # 0 /\ disk.members[idx].status # "approved")
             => /\ resp'.code = 403
                /\ resp'.op = "requestCode" => resp'.status = disk.members[idx].status
                /\ resp'.token = NoTok
                /\ disk' = disk /\ otpStore' = otpStore]_vars

\* a rejected member holding a live code was refused by verifyCode, and a pending member
\* that was never approved exists alongside issued tokens
NotApprovedWitness ==
  /\ resp.op = "verifyCode" /\ resp.code = 403
  /\ \E i \in DOMAIN disk.members :
       /\ disk.members[i].phone = resp.norm
       /\ disk.members[i].status = "rejected"
       /\ disk.members[i].sessionTokens # <<>>
       /\ \E e \in otpStore : e.phone = resp.norm /\ e.code = resp.req.code

\* C6: while a member is not approved, memberByToken resolves none of the tokens issued
\* to that member, opaque session token or JWT.
DemotedTokensRejected ==
  \A e \in hist.issued :
    (/\ \E i \in DOMAIN disk.members : disk.members[i].id = e.owner
     /\ \A i \in DOMAIN disk.members :
          disk.members[i].id = e.owner => disk.members[i].status # "approved")
    => memberByToken(disk.members, e.tok) = 0

\* C7: once logout(token) has answered ok, memberByToken never resolves that token again,
\* opaque session token or JWT.
LoggedOutStaysOut ==
  \A t \in hist.loggedOut : memberByToken(disk.members, t) = 0

\* C11: a member is created pending, and a member's status changes only in an approve or
\* reject that carries the admin PIN; no request without the PIN creates an approved
\* member or changes a status.
StatusOnlyByAdmin ==
  [][\A i \in DOMAIN disk'.members :
       LET m == disk'.members[i]
           j == IndexById(disk.members, m.id)
       IN /\ j = 0 => m.status = "pending"
          /\ (j # 0 /\ disk.members[j].status # m.status)
             => /\ Responded /\ resp'.op \in {"approve", "reject"} /\ resp'.code = 200
                /\ isAdminReq(resp'.req.pin) /\ resp'.req.id = m.id]_vars

----------------------------------------------------------------------------
(* Reminder sweeps, overlapping each other and requests that re-read the store *)

\* the lower bound of the window at time 0, and its upper bound
StartsAts == {Day - 2 * TickMs, Day + 2 * TickMs}

\* an approved member that has logged in, with or without a push token
SweepMember(expoTokens) ==
  [SeedMember(normalizeUS(P10), <<OpaqueTok(0)>>) EXCEPT !.expoTokens = expoTokens]

SweepSeeds ==
  {[members |-> <<SweepMember(e)>>, meetings |-> ms] :
     e \in {<<>>, <<"ExponentPushToken[1]">>},
     ms \in {<<Meeting(1, a)>> : a \in StartsAts}
              \cup {<<Meeting(1, a), Meeting(2, b)>> : a \in StartsAts, b \in StartsAts}}

InitSweep ==
  /\ variant = "v2"
  /\ twilioOn \in BOOLEAN
  /\ disk \in SweepSeeds
  /\ mem = disk
  /\ storeMembers = <<>>
  /\ otpStore = {}
  /\ h = [s \in Slots |-> Idle]
  /\ now = 0
  /\ nextId = MaxMeetings + 1
  /\ nextTok = 1
  /\ resp = NoResp
  /\ prev = NoResp
  /\ hist = HistInit

Secrets == {CRON_SECRET, ADMIN_PIN}

TickSweep == TickTo(MaxNow)

NextSweep ==
  \/ \E s \in Slots, secret \in Secrets : SweepStart(s, secret, NoTok)
  \/ \E s \in Slots : SweepRead(s)
  \/ \E s \in Slots, ok \in BOOLEAN : SweepSms(s, ok)
  \/ \E s \in Slots, ok \in BOOLEAN : SweepPush(s, ok)
  \/ \E s \in Slots : SweepReturn(s)
  \/ MeStart(2, OpaqueTok(0))
  \/ MeDone(2)
  \/ TickSweep

SpecSweep == InitSweep /\ [][NextSweep]_vars

\* C1: over the whole run, however the sweeps overlap, no meeting gets more than one
\* 24h-reminder broadcast.
AtMostOneBroadcast == \A id \in MeetingIds : hist.bcast[id] <= 1

\* a sweep's db.read() resolves in this step
SweepReads(s) == h[s].kind = "sweep" /\ h[s].pc = "read" /\ h'[s].pc # "read"

\* C2: a sweep that starts after another has returned, no request in between and the
\* clock unchanged, selects none of the meetings the first one selected.
SecondSweepSelectsNone ==
  [][\A s \in Slots :
       (SweepReads(s) /\ hist.prevSweep.alone /\ hist.prevSweep.now = now)
       => Range(h'[s].due) \cap Range(hist.prevSweep.ids) = {}]_vars

\* C3: when a sweep returns ok, every meeting it lists in meetingsNotified has
\* didNotify24h = true in the persisted store at that moment, also when requests that
\* re-read the store ran while it was suspended (stated for a sweep that overlaps no
\* other sweep: the other requests are authenticated requests).
ReturnedMeansPersisted ==
  [][(Responded /\ resp'.op = "sweep" /\ resp'.code = 200 /\ hist.sweeps = 1)
     => \A k \in DOMAIN disk'.meetings :
          disk'.meetings[k].id \in Range(resp'.list) => disk'.meetings[k].didNotify24h]_vars

----------------------------------------------------------------------------
(* Two requests in flight that read, change and write the store *)

InitRace ==
  /\ variant = "v2"
  /\ twilioOn = FALSE
  /\ disk = EmptyStore
  /\ mem = disk
  /\ storeMembers = <<>>
  /\ otpStore = {}
  /\ h = [s \in Slots |-> Idle]
  /\ now = 0
  /\ nextId = 1
  /\ nextTok = 1
  /\ resp = NoResp
  /\ prev = NoResp
  /\ hist = HistInit

\* slot 1 registers the first phone, slot 2 the second one
RacePhone(s) == IF s = 1 THEN P10 ELSE PIntl

NextRace ==
  \/ \E s \in Slots : RegisterStart(s, "", RacePhone(s), "", "", "")
  \/ \E s \in Slots : RegisterDone(s)
  \/ \E s \in Slots, id \in KnownIds : Approve(s, id, ADMIN_PIN)
  \/ \E s \in Slots, id \in KnownIds : Reject(s, id, ADMIN_PIN)

SpecRace == InitRace /\ [][NextRace]_vars

\* the request of slot s gets its store read, writes and answers ok in this step
WritesBack(s) ==
  /\ h[s].kind = "register" /\ h[s].pc = "read" /\ h'[s].pc = "idle"
  /\ Responded /\ resp'.code = 200

\* C18: a request that read the store, changed it and wrote it back persists its own
\* snapshot plus its own change and answers ok: whatever another request wrote to the
\* collection after that snapshot was taken is missing from the persisted store.
LastWriterWins ==
  [][\A s \in Slots :
       WritesBack(s) =>
         LET snap == h[s].snap.members
             after == disk'.members
         IN /\ Len(after) \in {Len(snap), Len(snap) + 1}
            /\ \A i \in DOMAIN after :
                 after[i].id # resp'.memberId => (i <= Len(snap) /\ after[i] = snap[i])
            /\ \A i \in DOMAIN disk.members :
                 IndexById(snap, disk.members[i].id) = 0
                 => IndexById(after, disk.members[i].id) = 0]_vars

\* two registrations both answered ok, and the member of the first is not in the store
LostUpdateWitness ==
  /\ prev.op = "register" /\ prev.code = 200
  /\ resp.op = "register" /\ resp.code = 200
  /\ prev.memberId # resp.memberId
  /\ IndexById(disk.members, prev.memberId) = 0
  /\ IndexById(disk.members, resp.memberId) # 0

----------------------------------------------------------------------------
(* Meetings and their broadcasts, one request at a time *)

\* two approved members, the first with a push token, and a pending one between them
MeetMembers ==
  <<SweepMember(<<"ExponentPushToken[1]">>),
    [NewMember(NanoId(0 - 1), normalizeUS(PBare), "Bob", "", 0) EXCEPT !.status = "pending"],
    [NewMember(NanoId(0 - 2), normalizeUS(PIntl), "Cy", "", 0) EXCEPT !.status = "approved"]>>

InitMeet ==
  /\ variant = "v2"
  /\ twilioOn = TRUE
  /\ disk = [members |-> MeetMembers, meetings |-> <<>>]
  /\ mem = disk
  /\ storeMembers = <<>>
  /\ otpStore = {}
  /\ h = [s \in Slots |-> Idle]
  /\ now = 0
  /\ nextId = 1
  /\ nextTok = 1
  /\ resp = NoResp
  /\ prev = NoResp
  /\ hist = HistInit

TickMeet == TickTo(MaxNow)

NextMeet ==
  \/ \E pin \in {ADMIN_PIN, "000000"}, startsAt \in StartsAts, sendSms \in BOOLEAN,
        sendPush \in BOOLEAN : CreateStart(1, pin, startsAt, sendSms, sendPush)
  \/ CreateWritten(1)
  \/ \E ok \in BOOLEAN : CreateSms(1, ok)
  \/ \E ok \in BOOLEAN : CreatePush(1, ok)
  \/ \E secret \in Secrets : SweepStart(1, secret, NoTok)
  \/ SweepRead(1)
  \/ \E ok \in BOOLEAN : SweepSms(1, ok)
  \/ \E ok \in BOOLEAN : SweepPush(1, ok)
  \/ SweepReturn(1)
  \/ TickMeet

SpecMeet == InitMeet /\ [][NextMeet]_vars

\* a broadcasting route answers a caller it let in
BroadcastStep ==
  /\ Responded
  /\ resp'.op \in {"sweep", "createMeeting"}
  /\ resp'.code # 401

\* one send per recipient, in the order of the list
OnePerMember(id, approved) ==
  [j \in DOMAIN approved |-> [id |-> id, phone |-> approved[j].phone]]

\* the sends of a fan-out over the meetings ids, meeting after meeting
RECURSIVE FanOut(_, _)
FanOut(ids, approved) ==
  IF ids = <<>> THEN <<>>
  ELSE OnePerMember(Head(ids), approved) \o FanOut(Tail(ids), approved)

\* C12: a broadcasting request answers 200, and by then it has attempted exactly one SMS
\* to every approved member, in the order of the list, for each meeting it broadcast,
\* whichever of these sends failed.
FanOutSurvivesFailure ==
  [][BroadcastStep =>
       /\ resp'.code = 200
       /\ resp'.sms =
            IF resp'.op = "createMeeting" /\ ~resp'.req.sendSms THEN <<>>
            ELSE FanOut(resp'.list, byStatus(disk.members, "approved"))]_vars

\* a sweep whose sends to the first member failed still sent to the second one
FanOutFailureWitness ==
  /\ resp.op = "sweep" /\ resp.code = 200
  /\ Len(resp.sms) >= 2
  /\ resp.sms[2].id = resp.sms[1].id
  /\ resp.fails = Len(resp.sms)

\* C13: create-meeting answers an admin with 200 and the created meeting, which is in the
\* persisted meetings, and the sweep answers the right secret with 200 and the ids of the
\* meetings it selected, whatever became of the SMS and push sends.
DeliveryFailuresStayInside ==
  [][BroadcastStep =>
       /\ resp'.code = 200
       /\ resp'.op = "createMeeting" =>
            /\ resp'.list = <<h[1].meeting>>
            /\ \E k \in DOMAIN disk'.meetings :
                 /\ disk'.meetings[k].id = h[1].meeting
                 /\ disk'.meetings[k].startsAt = h[1].args.startsAt
       /\ resp'.op = "sweep" => resp'.list = h[1].due]_vars

\* create-meeting has answered 200 with its meeting, which is in the store, after both of
\* its SMS sends and its push chunk failed
CreateAllFailedWitness ==
  /\ resp.op = "createMeeting" /\ resp.code = 200
  /\ Len(resp.sms) = 2 /\ resp.fails = 2
  /\ resp.pushes = 1 /\ resp.pfails = 1
  /\ \E k \in DOMAIN disk.meetings : disk.meetings[k].id = resp.list[1]

\* the request of the slot is at one of the sends of create-meeting
CreateSending(hs) == hs.kind = "create" /\ hs.pc \in {"csms", "cpush"}

\* C19: create-meeting starts its first send in the step in which its db.write() completes,
\* and while it is at a send its meeting is in the persisted meetings.
PersistBeforeNotify ==
  /\ [](CreateSending(h[1]) =>
          \E k \in DOMAIN disk.meetings : disk.meetings[k].id = h[1].meeting)
  /\ [][(CreateSending(h'[1]) /\ ~CreateSending(h[1]))
          => (h[1].kind = "create" /\ h[1].pc = "cwrite" /\ h[1].sms = <<>>
              /\ h[1].pushes = 0
              /\ \E k \in DOMAIN disk.meetings : disk.meetings[k].id = h[1].meeting)]_vars

\* a create-meeting request is awaiting its first SMS send
CreateSendingWitness ==
  /\ CreateSending(h[1])
  /\ h[1].pc = "csms" /\ h[1].sms = <<>>

\* the meetings of the window [t + 24h - 10m, t + 24h + 10m) not yet flagged, in order
RECURSIVE InWindow(_, _)
InWindow(meetings, t) ==
  IF meetings = <<>> THEN <<>>
  ELSE (IF /\ ~Head(meetings).didNotify24h
           /\ t + Day - TenMinutes <= Head(meetings).startsAt
           /\ Head(meetings).startsAt < t + Day + TenMinutes
        THEN <<Head(meetings).id>> ELSE <<>>) \o InWindow(Tail(meetings), t)

\* the flag of meeting k is set in this step
Flagged(k) ==
  /\ k \in DOMAIN disk.meetings
  /\ disk'.meetings[k].didNotify24h /\ ~disk.meetings[k].didNotify24h

\* C20: the sweep that reads the store at time now selects exactly the unflagged meetings
\* with now + 24h - 10m <= startsAt < now + 24h + 10m, and only meetings it selected are
\* broadcast or flagged.
SweepWindowExact ==
  [][/\ (h[1].kind = "sweep" /\ h[1].pc = "read" /\ h'[1].pc # "read")
          => h'[1].due = InWindow(disk.meetings, now)
     /\ \A k \in DOMAIN disk'.meetings :
          Flagged(k) => /\ h'[1].kind = "sweep"
                        /\ disk.meetings[k].id \in Range(InWindow(disk.meetings, h'[1].t))
     /\ \A id \in MeetingIds :
          hist'.bcast[id] # hist.bcast[id]
          => /\ h'[1].kind = "sweep"
             /\ \E k \in DOMAIN disk.meetings :
                  /\ disk.meetings[k].id = id
                  /\ id \in Range(InWindow(disk.meetings, h'[1].t))
     /\ (Responded /\ resp'.op = "sweep" /\ resp'.code = 200)
          => \A j \in DOMAIN resp'.sms : resp'.sms[j].id \in Range(h[1].due)]_vars

\* a sweep selected the meeting that starts at the lower bound of its window and left the
\* one that starts at the upper bound alone
WindowBoundsWitness ==
  /\ resp.op = "sweep" /\ resp.code = 200
  /\ hist.prevSweep.ids = resp.list
  /\ \E k, l \in DOMAIN disk.meetings :
       /\ disk.meetings[k].startsAt = hist.prevSweep.now + Day - TenMinutes
       /\ disk.meetings[k].id \in Range(resp.list)
       /\ disk.meetings[k].didNotify24h
       /\ disk.meetings[l].startsAt = hist.prevSweep.now + Day + TenMinutes
       /\ disk.meetings[l].id \notin Range(resp.list)
       /\ ~disk.meetings[l].didNotify24h

----------------------------------------------------------------------------
(* The sweep and what its caller presents *)

\* no secret, the scheduler secret, the admin PIN
CronSecrets == {"", CRON_SECRET, ADMIN_PIN}

\* no bearer token, the session token of the approved member
CronTokens == {NoTok, OpaqueTok(0)}

InitCron ==
  /\ variant = "v2"
  /\ twilioOn \in BOOLEAN
  /\ disk \in SweepSeeds
  /\ mem = disk
  /\ storeMembers = <<>>
  /\ otpStore = {}
  /\ h = [s \in Slots |-> Idle]
  /\ now = 0
  /\ nextId = MaxMeetings + 1
  /\ nextTok = 1
  /\ resp = NoResp
  /\ prev = NoResp
  /\ hist = HistInit

TickCron == TickTo(MaxNow)

NextCron ==
  \/ \E secret \in CronSecrets, token \in CronTokens : SweepStart(1, secret, token)
  \/ SweepRead(1)
  \/ \E ok \in BOOLEAN : SweepSms(1, ok)
  \/ \E ok \in BOOLEAN : SweepPush(1, ok)
  \/ SweepReturn(1)
  \/ TickCron

SpecCron == InitCron /\ [][NextCron]_vars

\* C21: a sweep request whose secret is missing or is not the scheduler secret is answered
\* 401 at once, starts no handler, sends nothing and leaves every meeting as it is, also
\* when the secret is the admin PIN or the request carries a valid member session; only
\* a request with the scheduler secret starts a sweep.
SweepNeedsSecret ==
  [][/\ (Responded /\ resp'.op = "sweep" /\ resp'.req.secret # CRON_SECRET)
          => /\ resp'.code = 401
             /\ h[1].pc = "idle" /\ h' = h
             /\ disk' = disk /\ mem' = mem
             /\ hist'.bcast = hist.bcast
     /\ (h[1].pc = "idle" /\ h'[1].kind = "sweep")
          => h'[1].args.secret = CRON_SECRET
     /\ (Responded /\ resp'.op = "sweep" /\ resp'.code = 200)
          => h[1].args.secret = CRON_SECRET]_vars

\* the admin PIN, presented with the session token of an approved member, was refused
\* while a meeting of the window waits for its reminder
SweepRefusedWitness ==
  /\ resp.op = "sweep" /\ resp.code = 401
  /\ resp.req.secret = ADMIN_PIN
  /\ resp.req.token = OpaqueTok(0)
  /\ memberByToken(disk.members, resp.req.token) # 0
  /\ Due(disk.meetings, now) # <<>>
  /\ \A id \in MeetingIds : hist.bcast[id] = 0

----------------------------------------------------------------------------
(* The moderation routes, one request at a time, in both variants of the server *)

\* an approved admin member with a session, and a pending member
AdminMembers ==
  <<SeedMember(normalizeUS(P10), <<OpaqueTok(0)>>),
    NewMember(NanoId(0 - 1), normalizeUS(PIntl), "Bob", "", 0)>>

InitAdmin ==
  /\ variant \in {"v1", "v2"}
  /\ twilioOn = FALSE
  /\ disk = [members |-> AdminMembers, meetings |-> <<>>]
  /\ mem = disk
  /\ storeMembers = <<>>
  /\ otpStore = {}
  /\ h = [s \in Slots |-> Idle]
  /\ now = 0
  /\ nextId = 1
  /\ nextTok = 1
  /\ resp = NoResp
  /\ prev = NoResp
  /\ hist = HistInit

\* the id of the pending member and an id no member has
AdminIds == {NanoId(0 - 1), NanoId(0 - 2)}

NextAdmin ==
  \/ \E id \in AdminIds, pin \in Pins : Approve(1, id, pin)
  \/ \E id \in AdminIds, pin \in Pins : Reject(1, id, pin)
  \/ \E id \in AdminIds, pin \in Pins : MakeAdmin(1, id, pin)
  \/ \E id \in AdminIds, pin \in Pins : RemoveAdmin(1, id, pin)
  \/ \E id \in AdminIds, pin \in Pins : DeleteMember(1, id, pin)
  \/ \E pin \in Pins, status \in {"", "approved"} : ListMembers(1, pin, status)
  \/ \E pin \in Pins, startsAt \in StartsAts : CreateStart(1, pin, startsAt, FALSE, TRUE)
  \/ CreateWritten(1)

SpecAdmin == InitAdmin /\ [][NextAdmin]_vars

AdminOps ==
  {"approve", "reject", "makeAdmin", "removeAdmin", "deleteMember", "listMembers",
   "createMeeting"}

\* what a step may do to the store when it comes to admin-only operations
AdminStepNeedsPin ==
  /\ (Responded /\ resp'.op \in AdminOps /\ resp'.req.pin # ADMIN_PIN)
       => (resp'.code = 401 /\ disk' = disk /\ mem' = mem /\ h' = h)
  /\ (h[1].pc = "idle" /\ h'[1].kind = "create") => h'[1].args.pin = ADMIN_PIN
  /\ disk' # disk
       => \/ Responded /\ resp'.op \in AdminOps /\ resp'.req.pin = ADMIN_PIN
          \/ h'[1].kind = "create" /\ h'[1].args.pin = ADMIN_PIN

\* C22: list members, approve, reject, make-admin, remove-admin, delete member and create
\* meeting take effect only in a request that carries the admin PIN; any other request to
\* them, with an empty or a wrong PIN, is answered 401 and changes nothing.
AdminOpsNeedPin == [][AdminStepNeedsPin]_vars

\* a removal the guard let through answers in this step
RemoveStep == Responded /\ resp'.op = "deleteMember" /\ resp'.code # 401

\* C23: a removal answers ok and leaves no member with that id, the other members staying
\* as they were and in their order; for an id no member has, a second removal of the same
\* id included, it answers ok and leaves the members unchanged.
RemoveIdempotent ==
  [][RemoveStep =>
       LET id == resp'.req.id IN
       /\ resp'.code = 200
       /\ IndexById(disk'.members, id) = 0
       /\ Len(disk'.members) = Len(disk.members) - (IF IndexById(disk.members, id) = 0 THEN 0 ELSE 1)
       /\ \A i \in DOMAIN disk.members :
            disk.members[i].id # id
            => disk'.members[IF IndexById(disk.members, id) \in 1..i THEN i - 1 ELSE i]
                 = disk.members[i]
       /\ IndexById(disk.members, id) = 0 => disk'.members = disk.members
       /\ disk'.meetings = disk.meetings]_vars

\* the member that was removed before has been removed again: ok, and the other member
\* is still there
RemoveTwiceWitness ==
  /\ resp.op = "deleteMember" /\ resp.code = 200
  /\ resp.again
  /\ resp.req.id = NanoId(0 - 1)
  /\ Len(disk.members) = 1

\* C24: a logout with a token that resolves to a member, or that a logout has already
\* answered ok for, answers ok; it takes exactly that token out of the owner's
\* sessionTokens and leaves every other token of every member in place, so that a second
\* logout with the same token answers ok and changes nothing.
LogoutIdempotent ==
  [][(/\ Responded /\ resp'.op = "logout"
      /\ resp'.req.token # NoTok
      /\ \/ memberByToken(disk.members, resp'.req.token) # 0
         \/ resp'.req.token \in hist.loggedOut)
     => /\ resp'.code = 200
        /\ Len(disk'.members) = Len(disk.members)
        /\ \A i \in DOMAIN disk.members :
             disk'.members[i] =
               [disk.members[i] EXCEPT
                  !.sessionTokens = Without(@, resp'.req.token)]]_vars

----------------------------------------------------------------------------
(* A broadcast in flight while the admin moderates members *)

\* an approved member and a pending one
SnapMembers ==
  <<[SeedMember(normalizeUS(P10), <<>>) EXCEPT !.isAdmin = FALSE],
    NewMember(NanoId(0 - 1), normalizeUS(PIntl), "Bob", "", 0)>>

SnapIds == {SnapMembers[1].id, SnapMembers[2].id}

InitSnap ==
  /\ variant = "v2"
  /\ twilioOn = TRUE
  /\ disk = [members |-> SnapMembers, meetings |-> <<>>]
  /\ mem = disk
  /\ storeMembers = <<>>
  /\ otpStore = {}
  /\ h = [s \in Slots |-> Idle]
  /\ now = 0
  /\ nextId = 1
  /\ nextTok = 1
  /\ resp = NoResp
  /\ prev = NoResp
  /\ hist = HistInit

\* the approved member is rejected or deleted, the pending one approved or rejected
NextSnap ==
  \/ CreateStart(1, ADMIN_PIN, Day, TRUE, FALSE)
  \/ CreateWritten(1)
  \/ CreateSms(1, TRUE)
  \/ SweepStart(1, CRON_SECRET, NoTok)
  \/ SweepRead(1)
  \/ SweepSms(1, TRUE)
  \/ SweepReturn(1)
  \/ Approve(2, SnapMembers[2].id, ADMIN_PIN)
  \/ \E id \in SnapIds : Reject(2, id, ADMIN_PIN)
  \/ DeleteMember(2, SnapMembers[1].id, ADMIN_PIN)

SpecSnap == InitSnap /\ [][NextSnap]_vars

IsApproved(m) == m.status = "approved"

\* the request of slot 1 is at an SMS send
Sending(hs) == hs.pc \in {"sms", "csms"}

\* the handler takes its snapshot in this step: create-meeting when db.write() has
\* completed, the sweep when db.read() has resolved
TakesSnapshot ==
  \/ h[1].kind = "create" /\ h[1].pc = "cwrite" /\ h'[1].pc # "cwrite"
  \/ SweepReads(1)

\* the sends of the request of slot 1 after this step, which may be its last
LogAfter == IF h'[1].kind = "idle" THEN resp'.sms ELSE h'[1].sms

\* C25: the recipients of a broadcast are the members that are approved in db.data in the
\* step in which the handler takes its snapshot: the list is taken then, it does not
\* change while the sends go on whatever is approved, rejected or deleted meanwhile, and
\* every SMS goes to the next member of that list.
RecipientsAreSnapshot ==
  [][/\ (TakesSnapshot /\ Sending(h'[1]))
          => h'[1].approved = SelectSeq(mem'.members, IsApproved)
     /\ (TakesSnapshot /\ Responded /\ resp'.code = 200)
          => (resp'.sms = <<>> /\ (SelectSeq(mem'.members, IsApproved) = <<>>
                                   \/ resp'.list = <<>>))
     /\ (Sending(h[1]) /\ Sending(h'[1])) => h'[1].approved = h[1].approved
     /\ Sending(h[1])
          => \/ h'[1] = h[1]
             \/ /\ Len(LogAfter) = Len(h[1].sms) + 1
                /\ LogAfter[Len(LogAfter)].phone = h[1].approved[h[1].j].phone
                /\ h[1].approved[h[1].j].status = "approved"
                /\ IF Sending(h'[1])
                   THEN h'[1].j = IF h'[1].i = h[1].i THEN h[1].j + 1 ELSE 1
                   ELSE h[1].j = Len(h[1].approved)
     /\ ~Sending(h[1]) => (h'[1].sms = h[1].sms \/ h'[1].sms = <<>>)]_vars

\* a broadcast has answered: it sent to the member rejected after the snapshot and not to
\* the member approved after it
SnapshotWitness ==
  /\ resp.op \in {"createMeeting", "sweep"} /\ resp.code = 200
  /\ Len(resp.sms) = 1
  /\ resp.sms[1].phone = SnapMembers[1].phone
  /\ Len(disk.members) = 2
  /\ disk.members[1].status = "rejected"
  /\ disk.members[2].status = "approved"

----------------------------------------------------------------------------
(* Reminders over time: sweeps one after the other, at most 15 minutes apart, with
   authenticated requests of a second client in between *)

\* one approved, logged-in member with a push token: every selected meeting is broadcast
RemindMembers == <<SweepMember(<<"ExponentPushToken[1]">>)>>

InitRemind ==
  /\ variant = "v2"
  /\ twilioOn = FALSE
  /\ disk = [members |-> RemindMembers, meetings |-> <<>>]
  /\ mem = disk
  /\ storeMembers = <<>>
  /\ otpStore = {}
  /\ h = [s \in Slots |-> Idle]
  /\ now = 0
  /\ nextId = 1
  /\ nextTok = 1
  /\ resp = NoResp
  /\ prev = NoResp
  /\ hist = HistInit

\* the longest time between two invocations of the sweep, and the end of the run
SweepGapMs == 15 * 60 * 1000
RemindNow == 6 * TickMs

\* a meeting inside the window at the start, and one whose window opens later; each is
\* created once, at the start of the run
RemindStartsAts == {Day, Day + 3 * TickMs}

\* now() of the last sweep that has returned, the start of the run when there is none
LastSweepAt == IF hist.prevSweep.now < 0 THEN 0 ELSE hist.prevSweep.now

\* the clock advances as long as the next sweep is not overdue
TickRemind == now + TickMs - LastSweepAt <= SweepGapMs /\ TickTo(RemindNow)

NextRemind ==
  \/ \E startsAt \in RemindStartsAts :
       /\ now = 0
       /\ \A k \in DOMAIN disk.meetings : disk.meetings[k].startsAt # startsAt
       /\ CreateStart(1, ADMIN_PIN, startsAt, FALSE, TRUE)
  \/ CreateWritten(1)
  \/ \E ok \in BOOLEAN : CreatePush(1, ok)
  \/ SweepStart(1, CRON_SECRET, NoTok)
  \/ SweepRead(1)
  \/ \E ok \in BOOLEAN : SweepPush(1, ok)
  \/ SweepReturn(1)
  \/ MeStart(2, OpaqueTok(0))
  \/ MeDone(2)
  \/ TickRemind

SpecRemind == InitRemind /\ [][NextRemind]_vars

\* the meeting was stored before its window opened: it was created at the start of the
\* run, that is before startsAt - 24h - 10m
StoredBeforeWindow(meet) == meet.startsAt - Day - 10 * 60 * 1000 > 0

\* the window of the meeting is over at t
WindowOver(meet, t) == meet.startsAt < windowStart(t)

\* C26: with sweeps invoked one after the other, never more than 15 minutes apart, every
\* meeting stored unflagged before its window opens is selected by a sweep by the time
\* its window is over, and by no more than one sweep.
EarlyMeetingSelectedOnce ==
  \A k \in DOMAIN disk.meetings :
    StoredBeforeWindow(disk.meetings[k])
    => /\ hist.bcast[disk.meetings[k].id] <= 1
       /\ (WindowOver(disk.meetings[k], now) /\ h[1].pc = "idle")
            => hist.bcast[disk.meetings[k].id] = 1

\* the meeting was created with startsAt inside the window of that moment
CreatedInWindow(meet) == IsDue([meet EXCEPT !.didNotify24h = FALSE], 0)

\* C27: create-meeting stores the meeting with didNotify24h = false; a meeting created
\* inside the current window is selected by the next sweep that finds it in the window,
\* and by no sweep after that one.
CreatedInWindowRemindedOnce ==
  [][/\ (Responded /\ resp'.op = "createMeeting" /\ resp'.code = 200)
          => \E k \in DOMAIN disk'.meetings :
               /\ disk'.meetings[k].id = resp'.list[1]
               /\ ~disk'.meetings[k].didNotify24h
     /\ SweepReads(1)
          => \A k \in DOMAIN h[1].snap.meetings :
               LET meet == h[1].snap.meetings[k]
                   inWindow == meet.startsAt >= windowStart(now)
                               /\ meet.startsAt < windowEnd(now)
               IN CreatedInWindow(meet)
                  => /\ (hist.bcast[meet.id] = 0 /\ inWindow)
                          => meet.id \in Range(h'[1].due)
                     /\ hist.bcast[meet.id] >= 1 => meet.id \notin Range(h'[1].due)]_vars

\* C28: a sweep flags every meeting it selected also when no send for it succeeded, so
\* the sweep that follows one that answered with smsCount = 0 and pushCount = 0 selects
\* none of the meetings that one listed.
FailedReminderNotRetried ==
  [][/\ (Responded /\ resp'.op = "sweep" /\ resp'.code = 200
          /\ resp'.smsCount = 0 /\ resp'.pushCount = 0)
          => \A k \in DOMAIN disk'.meetings :
               disk'.meetings[k].id \in Range(resp'.list) => disk'.meetings[k].didNotify24h
     /\ (SweepReads(1) /\ resp.op = "sweep" /\ resp.code = 200
          /\ resp.smsCount = 0 /\ resp.pushCount = 0)
          => Range(h'[1].due) \cap Range(resp.list) = {}]_vars

----------------------------------------------------------------------------
(* The member-or-admin endpoints: GET /meetings and the chat of the add-on *)

GuardPins == Pins \cup {Padded(ADMIN_PIN)}

\* no token, the session token of the first member, a token nobody holds, and the JWTs the
\* add-on signs for the two members
GuardTokens ==
  {NoTok, OpaqueTok(0), OpaqueTok(0 - 1), signToken(AdminMembers[1]),
   signToken(AdminMembers[2])}

InitGuard ==
  /\ variant \in {"v1", "v2"}
  /\ twilioOn = FALSE
  /\ disk = [members |-> AdminMembers, meetings |-> <<>>]
  /\ mem = disk
  /\ storeMembers = <<>>
  /\ otpStore = {}
  /\ h = [s \in Slots |-> Idle]
  /\ now = 0
  /\ nextId = 1
  /\ nextTok = 1
  /\ resp = NoResp
  /\ prev = NoResp
  /\ hist = HistInit

NextGuard ==
  \/ \E pin \in GuardPins, token \in GuardTokens : GetMeetings(1, pin, token)
  \/ \E pin \in GuardPins, token \in GuardTokens : AddonChat(1, pin, token)
  \/ Approve(1, AdminMembers[1].id, ADMIN_PIN)
  \/ Reject(1, AdminMembers[1].id, ADMIN_PIN)
  \/ \E startsAt \in StartsAts : CreateStart(1, ADMIN_PIN, startsAt, FALSE, FALSE)
  \/ CreateWritten(1)

SpecGuard == InitGuard /\ [][NextGuard]_vars

\* a member-or-admin endpoint answers
GuardedStep == Responded /\ resp'.op \in {"getMeetings", "addonChat"}

\* the request carries the exact PIN, or a bearer token that memberByToken resolves to an
\* approved member of the store
Entitled(ms, req) ==
  \/ req.pin = ADMIN_PIN
  \/ (req.token # NoTok /\ memberByToken(ms, req.token) # 0)

\* C29: a member-or-admin endpoint is served if and only if the request carries the exact
\* admin PIN or a bearer token that resolves to an approved member; otherwise it is
\* answered 401, and the PIN is enough whatever the bearer token is.
MemberOrAdminExact ==
  [][GuardedStep
     => /\ resp'.code \in {200, 401}
        /\ resp'.code = 200 <=> Entitled(disk.members, resp'.req)]_vars

----------------------------------------------------------------------------
(* Failed verify-code requests, under SpecOtp *)

\* C30: a verifyCode that is refused (arguments missing, member not approved, wrong or
\* expired code) leaves the OTP registry and the persisted store as they are and mints no
\* token; and whatever was refused before, a verifyCode by an approved member with the
\* code last issued, not yet used and not expired, succeeds.
FailedVerifyChangesNothing ==
  [][(Responded /\ resp'.op = "verifyCode")
     => /\ resp'.code # 200
             => /\ otpStore' = otpStore
                /\ disk' = disk
                /\ nextTok' = nextTok
                /\ resp'.token = NoTok
                /\ \A i \in DOMAIN mem'.members :
                     mem'.members[i].sessionTokens = disk.members[i].sessionTokens
        /\ (resp'.code # 400 /\ ApprovedCaller)
             => \A e \in hist.otp :
                  (/\ e.phone = resp'.norm /\ e.code = resp'.req.code
                   /\ e.uses = 0 /\ now < e.expMs)
                  => resp'.code = 200]_vars

\* a wrong code has just been refused for an approved member that has no session yet,
\* and the code issued for the phone is still in the registry, unused and not expired
FailedVerifyWitness ==
  /\ resp.op = "verifyCode" /\ resp.code = 401
  /\ \E e \in otpStore :
       /\ e.phone = resp.norm /\ e.code # resp.req.code /\ now < e.expMs
       /\ \E g \in hist.otp : g.phone = e.phone /\ g.code = e.code /\ g.uses = 0
  /\ \E i \in DOMAIN disk.members :
       /\ disk.members[i].phone = resp.norm /\ disk.members[i].status = "approved"
       /\ disk.members[i].sessionTokens = <<>>

----------------------------------------------------------------------------
(* Sessions across a rejection: the admin approves only members that are not approved *)

NextReapprove ==
  \/ Register(1, "", P10, "", "", "")
  \/ \E i \in DOMAIN disk.members :
       disk.members[i].status # "approved" /\ Approve(1, disk.members[i].id, ADMIN_PIN)
  \/ \E id \in KnownIds : Reject(1, id, ADMIN_PIN)
  \/ \E smsOk \in BOOLEAN : RequestCode(1, P10, "123456", smsOk)
  \/ \E code \in Codes : VerifyCode(1, PFmt, code, "")
  \/ \E token \in KnownTokens : Logout(1, token)
  \/ \E token \in KnownTokens : Me(1, token)

SpecReapprove == InitSession /\ [][NextReapprove]_vars

\* the session tokens that were issued and have not been logged out
LiveTokens == {e \in hist.issued : e.tok.kind = "tok" /\ e.tok \notin hist.loggedOut}

\* the member with this id is stored with this status
HasStatus(ms, id, status) == \E i \in DOMAIN ms : ms[i].id = id /\ ms[i].status = status

\* C31: a session token that was issued and not logged out stays in the sessionTokens of
\* its member whatever the status becomes; a logout presented while the member is not
\* approved is answered 401 and removes nothing; and once an approve of the member has
\* answered ok, memberByToken resolves the token to that member again.
TokenSurvivesRejection ==
  /\ [](\A e \in LiveTokens :
          \E i \in DOMAIN disk.members :
            /\ disk.members[i].id = e.owner
            /\ Includes(disk.members[i].sessionTokens, e.tok)
            /\ disk.members[i].status = "approved" => memberByToken(disk.members, e.tok) = i)
  /\ [][/\ (Responded /\ resp'.op = "logout"
           /\ \E e \in LiveTokens :
                e.tok = resp'.req.token /\ ~HasStatus(disk.members, e.owner, "approved"))
          => (resp'.code = 401 /\ disk' = disk /\ hist'.loggedOut = hist.loggedOut)
        /\ (Responded /\ resp'.op = "approve" /\ resp'.code = 200)
          => \A e \in LiveTokens :
               e.owner = resp'.memberId
               => /\ memberByToken(disk'.members, e.tok) # 0
                  /\ disk'.members[memberByToken(disk'.members, e.tok)].id = e.owner]_vars

\* an approve has just answered ok for a member that holds a live token and, as every
\* approve here, was not approved when it arrived: the token was issued, the member
\* rejected and now approved again, and memberByToken resolves the token
ReapprovedWitness ==
  /\ resp.op = "approve" /\ resp.code = 200
  /\ \E e \in LiveTokens :
       /\ e.owner = resp.memberId
       /\ memberByToken(disk.members, e.tok) # 0
       /\ disk.members[memberByToken(disk.members, e.tok)].id = e.owner

----------------------------------------------------------------------------
(* The sendSms and sendPush flags of POST /meetings, one request at a time *)

\* a flag of the request body: absent, or given as true or false
FlagInputs == {<<>>, <<TRUE>>, <<FALSE>>}

\* m.sendSms ?? true
orTrue(flag) == IF flag = <<>> THEN TRUE ELSE flag[1]

NextFlags ==
  \/ \E startsAt \in StartsAts, sendSms \in FlagInputs, sendPush \in FlagInputs :
       CreateStart(1, ADMIN_PIN, startsAt, orTrue(sendSms), orTrue(sendPush))
  \/ CreateWritten(1)
  \/ CreateSms(1, TRUE)
  \/ CreatePush(1, TRUE)
  \/ SweepStart(1, CRON_SECRET, NoTok)
  \/ SweepRead(1)
  \/ SweepSms(1, TRUE)
  \/ SweepPush(1, TRUE)
  \/ SweepReturn(1)
  \/ TickMeet

SpecFlags == InitMeet /\ [][NextFlags]_vars

\* the number of push chunks a broadcast of n meetings sends to the approved members
ChunksFor(n, approved) == IF PushTargets(approved) = <<>> THEN 0 ELSE n

\* C32: an absent flag counts as true; create-meeting attempts the SMS of its broadcast
\* exactly when sendSms is true and the push exactly when sendPush is true, and stores a
\* meeting that carries neither flag; a sweep attempts the SMS to every approved member
\* and the push for every meeting it selected, whatever the flags at creation were.
FlagsOnlyAtCreation ==
  /\ [](\A f \in FlagInputs : orTrue(f) = (f # <<FALSE>>))
  /\ [][/\ (Responded /\ resp'.op = "createMeeting" /\ resp'.code = 200)
          => /\ resp'.sms =
                  IF resp'.req.sendSms
                  THEN FanOut(resp'.list, byStatus(disk.members, "approved"))
                  ELSE <<>>
             /\ resp'.pushes =
                  IF resp'.req.sendPush
                  THEN ChunksFor(1, byStatus(disk.members, "approved"))
                  ELSE 0
             /\ \E k \in DOMAIN disk'.meetings :
                  disk'.meetings[k] =
                    [id |-> resp'.list[1], startsAt |-> h[1].args.startsAt,
                     didNotify24h |-> FALSE]
        /\ (Responded /\ resp'.op = "sweep" /\ resp'.code = 200)
          => /\ resp'.sms = FanOut(resp'.list, byStatus(disk.members, "approved"))
             /\ resp'.pushes =
                  ChunksFor(Len(resp'.list), byStatus(disk.members, "approved"))]_vars

\* the last answer is that of a create-meeting with both flags false, which sent
\* nothing, and the sweep that followed has sent the SMS to both approved members and
\* the push for that meeting
QuietMeetingRemindedWitness ==
  /\ resp.op = "createMeeting" /\ resp.code = 200
  /\ ~resp.req.sendSms /\ ~resp.req.sendPush
  /\ resp.sms = <<>> /\ resp.pushes = 0
  /\ h[1].kind = "sweep" /\ h[1].pc = "write"
  /\ h[1].due = resp.list
  /\ h[1].sms = FanOut(resp.list, byStatus(disk.members, "approved"))
  /\ Len(h[1].sms) = 2
  /\ h[1].pushes = 1

====
